---- MODULE Spec2Model ----
(***************************************************************************)
(* A model of the grasp-metric pass of dexnet/api.py: DexNet._gravity_wrench *)
(* and DexNet._compute_metrics (stable-pose sampling, metric expansion,     *)
(* feasibility gating, quality evaluation and the store call).              *)
(*                                                                         *)
(* Numbers are fixed point: masses in kg, accelerations in cm/s^2, angles   *)
(* in milliradians, probabilities as integer weights.  Python dicts are     *)
(* functions whose domain is the key set; Python lists are sequences.       *)
(***************************************************************************)
EXTENDS Integers, Sequences, FiniteSets, TLC

(***************************************************************************)
(* Bounds of the model.                                                     *)
(***************************************************************************)
MaxMass == 2
MaxCfgStablePoses == 2
MaxGrasps == 2
MaxPoses == 3
\* grasps of a pair whose values are already stored
MaxStoredGrasps == 2
\* grasps stored for an (object, gripper) pair of a dataset of several objects
MaxPairGrasps == 1
\* (object, gripper, metric) combinations of a dataset and its configuration
MaxTuples == 4
\* grasps of the pair whose pass reports its progress
MaxProgressGrasps == 3

(***************************************************************************)
(* Program constants.                                                       *)
(***************************************************************************)
\* dexnet.constants.GRAVITY_ACCEL, 9.81 m/s^2, in cm/s^2
GRAVITY_ACCEL == 981

\* Python's None: for a name, for a vector, for a number
None == "None"

NoVector == <<>>

NoNumber == 0 - 1

(***************************************************************************)
(* Small vector algebra (numpy arrays of the code).                         *)
(***************************************************************************)
Neg(v) == [i \in DOMAIN v |-> 0 - v[i]]

Scale(c, v) == [i \in DOMAIN v |-> c * v[i]]

Dot(u, v) == u[1] * v[1] + u[2] * v[2] + u[3] * v[3]

Abs(x) == IF x < 0 THEN 0 - x ELSE x

\* np.deg2rad, degrees to milliradians (pi/180 = 0.0174533)
Deg2Rad(d) == (d * 174533) \div 10000

RECURSIVE SumSeq(_)
SumSeq(s) == IF s = <<>> THEN 0 ELSE Head(s) + SumSeq(Tail(s))

Range(s) == {s[i] : i \in DOMAIN s}

\* dict[key] = value
Put(d, k, v) == (k :> v) @@ d

(***************************************************************************)
(* Inputs: stable poses, objects, grasps, metric specifications.            *)
(***************************************************************************)
\* 3x3 orientations r (rows r[1], r[2], r[3] are numpy rows 0, 1, 2).
\* RotZ has the same table normal (row 2) as RotId.
RotId == << <<1, 0, 0>>, <<0, 1, 0>>, <<0, 0, 1>> >>

RotZ == << <<0, 1, 0>>, <<-1, 0, 0>>, <<0, 0, 1>> >>

RotX == << <<1, 0, 0>>, <<0, 0, -1>>, <<0, 1, 0>> >>

RotFlip == << <<1, 0, 0>>, <<0, -1, 0>>, <<0, 0, -1>> >>

Rotations == {RotId, RotZ, RotX, RotFlip}

PoseIds == {"a", "b", "b_c", "c"}

Probs == {0, 1, 2}

\* the sequences over S of length at most n
SeqsUpTo(S, n) == UNION {[1..m -> S] : m \in 0..n}

\* those without a repeated element
DistinctSeqs(S, n) ==
    {s \in SeqsUpTo(S, n) : \A i, j \in DOMAIN s : i # j => s[i] # s[j]}

\* the lists of at most n stable poses of an object: distinct ids, any p and r
PoseLists(ids, ps, rs, n) ==
    UNION {{[i \in DOMAIN s |-> [id |-> s[i], p |-> pf[i], r |-> rf[i]]] :
                pf \in [DOMAIN s -> ps], rf \in [DOMAIN s -> rs]} :
           s \in DistinctSeqs(ids, n)}

\* gripper records (gr.RobotGripper): a suction gripper carries inner_radius and height
Grippers ==
    {[name |-> "yumi", type |-> "parallel_jaw", force_limit |-> 5, finger_radius |-> 1,
      has_inner_radius |-> FALSE, inner_radius |-> NoNumber,
      has_height |-> FALSE, height |-> NoNumber],
     [name |-> "cup", type |-> "suction", force_limit |-> 3, finger_radius |-> 2,
      has_inner_radius |-> TRUE, inner_radius |-> 1, has_height |-> TRUE, height |-> 4]}

\* the x axis of a grasp frame T_obj_grasp: pointing down, up, or sideways in the object frame
XAxes == {<<0, 0, -1>>, <<0, 0, 1>>, <<1, 0, 0>>}

\* the approach-table angles grasp_angles_from_stp_z can return, in milliradians
\* (-pi/2, -15 degrees, a little over 30 degrees)
Angles == {-1571, -262, 524}

\* the values a quality function can return (res.quality)
Qualities == {0, 7}

QualityMethods ==
    {"partial_closure", "wrench_resistance", "suction_wrench_resistance", "force_closure"}

\* max_approach_table_angle of a metric specification, in degrees
MaxAngles == {30, 90}

\* metric specifications: the entries of config['metrics']
MetricSpecs == [quality_method : QualityMethods, max_approach_table_angle : MaxAngles]

MetricNames == {"m", "m_a", "m_b"}

\* the dicts over names of S with values in T
Dicts(S, T) == UNION {[D -> T] : D \in SUBSET S}

\* the lists of at most n grasps of an (object, gripper) pair: ids 1, 2, ..
GraspLists(n, xs) ==
    UNION {{[i \in 1..m |-> [id |-> i, x_axis |-> xf[i], aligned |-> FALSE]] :
                xf \in [1..m -> xs]} : m \in 0..n}

(***************************************************************************)
(* DexNet._gravity_wrench                                                   *)
(***************************************************************************)
\* a slip: the final negation is left out
_gravity_wrench_unnegated(o, stable_pose) ==
    LET gravity_magnitude == o.mass * GRAVITY_ACCEL
        stable_pose_normal == stable_pose.r[3]
        gravity_force == Scale(0 - gravity_magnitude, stable_pose_normal)
    IN gravity_force \o <<0, 0, 0>>

\* a slip: row 0 of the orientation is taken for the table normal
_gravity_wrench_row0(o, stable_pose) ==
    LET gravity_magnitude == o.mass * GRAVITY_ACCEL
        stable_pose_normal == stable_pose.r[1]
        gravity_force == Scale(0 - gravity_magnitude, stable_pose_normal)
    IN Neg(gravity_force \o <<0, 0, 0>>)

\* a slip: the torque is put before the force
_gravity_wrench_torque_first(o, stable_pose) ==
    LET gravity_magnitude == o.mass * GRAVITY_ACCEL
        stable_pose_normal == stable_pose.r[3]
        gravity_force == Scale(0 - gravity_magnitude, stable_pose_normal)
    IN Neg(<<0, 0, 0>> \o gravity_force)

_gravity_wrench(o, stable_pose) ==
    LET gravity_magnitude == o.mass * GRAVITY_ACCEL
        stable_pose_normal == stable_pose.r[3]
        gravity_force == Scale(0 - gravity_magnitude, stable_pose_normal)
        gravity_resist_wrench == Neg(gravity_force \o <<0, 0, 0>>)
    IN gravity_resist_wrench

(***************************************************************************)
(* Stable-pose sampling: np.random.choice(a, size, replace=False, p)        *)
(***************************************************************************)
\* p = p / np.sum(p): each probability as the fraction <<numerator, denominator>>
Normalize(p) == [i \in DOMAIN p |-> <<p[i], SumSeq(p)>>]

\* choice raises ValueError when fewer entries of p are non-zero than size; when the
\* probabilities are NaN (0/0) and size is 0, whether it raises depends on the numpy version
ChoiceRaises(a, size, p) ==
    \/ Cardinality({i \in DOMAIN p : p[i][1] > 0}) < size
    \/ \E i \in DOMAIN p : p[i][2] = 0

ChoiceReturns(a, size, p) == Cardinality({i \in DOMAIN p : p[i][1] > 0}) >= size

\* when it returns: size distinct elements of non-zero probability, in any order
ChoiceResults(a, size, p) ==
    {[j \in 1..size |-> a[s[j]]] :
        s \in {t \in DistinctSeqs({i \in DOMAIN p : p[i][1] > 0}, size) : Len(t) = size}}

\* a slip: lists one longer than the maximum are kept whole
SubsampledOffByOne(poses, cfg) == Len(poses) > cfg.max_stable_poses + 1

\* a slip: a list of exactly the maximum length is subsampled too
SubsampledAtBound(poses, cfg) == Len(poses) >= cfg.max_stable_poses

\* lines 500-503: TRUE when the list is subsampled
Subsampled(poses, cfg) == Len(poses) > cfg.max_stable_poses

(***************************************************************************)
(* Metric expansion, lines 515-538                                          *)
(***************************************************************************)
\* gqc.GraspQualityConfigFactory.create_config: the fields this file reads or writes
create_config(metric_spec) ==
    [quality_method |-> metric_spec.quality_method,
     max_approach_table_angle |-> metric_spec.max_approach_table_angle,
     target_wrench |-> NoVector,
     force_limits |-> NoNumber, finger_radius |-> NoNumber,
     inner_radius |-> NoNumber, height |-> NoNumber]

\* a slip: suction_wrench_resistance is forgotten
IsGravityMethodTwo(quality_method) ==
    \/ quality_method = "partial_closure"
    \/ quality_method = "wrench_resistance"

\* the three-way test of lines 526-528 and 573-575
IsGravityMethod(quality_method) ==
    \/ quality_method = "partial_closure"
    \/ quality_method = "wrench_resistance"
    \/ quality_method = "suction_wrench_resistance"

\* line 537
VariantName(metric_name, stable_pose) == metric_name \o "_" \o stable_pose.id

\* lines 535-536: copy.copy and the target_wrench assignment
GravityMetricConfig(o, metric_config, stable_pose) ==
    [metric_config EXCEPT !.target_wrench = _gravity_wrench(o, stable_pose)]

ExpandMetricNames(metric_name, metric_config, poses) ==
    IF IsGravityMethod(metric_config.quality_method)
    THEN [i \in DOMAIN poses |-> VariantName(metric_name, poses[i])]
    ELSE <<metric_name>>

ExpandMetricConfigs(o, metric_config, poses) ==
    IF IsGravityMethod(metric_config.quality_method)
    THEN [i \in DOMAIN poses |-> GravityMetricConfig(o, metric_config, poses[i])]
    ELSE <<metric_config>>

\* lines 549-555: the gripper parameters set on the variant's configuration
WithGripperParams(metric_config, g) ==
    [metric_config EXCEPT
        !.force_limits = g.force_limit,
        !.finger_radius = g.finger_radius,
        !.inner_radius = IF g.has_inner_radius THEN g.inner_radius ELSE @,
        !.height = IF g.has_height THEN g.height ELSE @]

(***************************************************************************)
(* Feasibility, lines 586-591                                               *)
(***************************************************************************)
\* a slip: the sign of the angle is not dropped
PerpendicularTableNoAbs(grasp_approach_table_angle, metric_config, stp_z, x_axis) ==
    LET max_approach_table_angle == Deg2Rad(metric_config.max_approach_table_angle)
        stp_z_ip == Dot(stp_z, x_axis)
    IN (grasp_approach_table_angle < max_approach_table_angle) /\ (stp_z_ip < 0)

PerpendicularTable(grasp_approach_table_angle, metric_config, stp_z, x_axis) ==
    LET max_approach_table_angle == Deg2Rad(metric_config.max_approach_table_angle)
        stp_z_ip == Dot(stp_z, x_axis)
    IN (Abs(grasp_approach_table_angle) < max_approach_table_angle) /\ (stp_z_ip < 0)

(***************************************************************************)
(* State: the DexNet instance, the dataset it works on, and the locals of  *)
(* the operation in progress.                                              *)
(***************************************************************************)
VARIABLES
    \* arguments and what the dataset holds for them
    obj,                  \* the graspable: key, mass
    gripper,              \* the gripper record
    config,               \* max_stable_poses, metrics, delete_previous_metrics, metric_display_rate
    args,                 \* stable_pose_id, metric_name, overwrite
    dataset_stable_poses, \* dataset.stable_poses(obj.key)
    dataset_grasp_metrics,\* stored values: grasp id -> (metric name -> value)
    dataset_metrics,      \* names for which dataset.has_metric is true
    \* locals of _compute_metrics
    pc,
    grasps,
    stable_poses,
    metric_dict,          \* the metrics still to iterate over
    metric_names,
    metric_configs,
    zi,                   \* position of the zip loop of line 542
    ind,
    k,                    \* position of the grasp loop, from 1
    grasp_metrics,
    \* the instance
    progress,             \* self.progress, as <<numerator, denominator>>
    database,             \* self.database: None, "open", or "closed" (a closed handle)
    dataset,              \* self.dataset: None, "open", or "closed" (a handle of a closed database)
    temp_dirs,            \* tempfile.mkdtemp: how many were made, which are on disk
    _database_temp_cache_dir,  \* None (0) or the temporary directory of the database
    output_dirs,          \* output directory on disk -> the objects exported to it
    dataset_object_data,  \* object key -> the data computed for the object
    dataset_name,         \* the name of the dataset self.dataset is a handle of, None if none
    created_datasets,     \* dataset created by open_dataset -> the create_metric calls on it
    \* the dataset
    dataset_objects,      \* dataset.object_keys -> [mass, stable_poses]
    dataset_grasps,       \* <<object key, gripper name>> -> dataset.grasps(key, gripper)
    flushed,              \* what the last database.flush() wrote out
    \* the public operation in progress
    script,               \* the calls the client has still to make, in order
    request,              \* its name and arguments
    todo,                 \* the iterations of its loops still to run
    exc,                  \* the exception that left it, "None" while there is none
    \* instrumentation
    variants,             \* every variant expanded in this pass, in order
    nvariant,             \* number of the variant being evaluated
    calls,                \* <<variant number, grasp id>> -> invocations of quality_fn
    last,                 \* what the last grasp iteration computed
    memo,                 \* the results the external functions gave, when they are deterministic
    before,               \* the contents of the dataset when the operation was called
    passes,               \* the passes that stored their record: what ran and what was stored
    events                \* the calls made on the dataset and the database, in order

vars == <<obj, gripper, config, args, dataset_stable_poses, dataset_grasp_metrics,
          dataset_metrics, pc, grasps, stable_poses, metric_dict, metric_names,
          metric_configs, zi, ind, k, grasp_metrics, progress, database, dataset,
          temp_dirs, _database_temp_cache_dir, output_dirs, dataset_object_data,
          dataset_name, created_datasets, dataset_objects, dataset_grasps, flushed, script,
          request, todo, exc,
          variants, nvariant, calls, last, memo, before, passes, events>>

inputs == <<obj, gripper, config, args, dataset_stable_poses>>

\* what a _compute_metrics pass never touches
\* the directories, and what the database holds besides the dataset's objects and grasps
housekeeping == <<temp_dirs, _database_temp_cache_dir, output_dirs, dataset_object_data,
                  dataset_name, created_datasets>>

instance == <<database, dataset, housekeeping, dataset_objects, dataset_grasps, flushed,
              script, request, todo, before>>

session == <<instance, passes>>

NoEval == [kind |-> "none"]

\* an entry of events: the call, the name and the number it is about, a flag it was given
Event(e, name, n, flag) == [e |-> e, name |-> name, n |-> n, flag |-> flag]

\* no result of an external function is held fixed
NoMemo == [on |-> FALSE, aligned |-> <<>>, angle |-> <<>>, quality |-> <<>>]

\* the external functions are deterministic: nothing called yet
EmptyMemo == [on |-> TRUE, aligned |-> <<>>, angle |-> <<>>, quality |-> <<>>]

\* the contents of the dataset a flush writes out
Contents == [grasps |-> dataset_grasps, grasp_metrics |-> dataset_grasp_metrics,
             metrics |-> dataset_metrics, objects |-> DOMAIN dataset_objects]

\* no temporary directory was made
NoTempDirs == [made |-> 0, present |-> {}]

\* self._database_temp_cache_dir is None
NoDir == 0

\* the dataset of the database file that dataset_objects, dataset_grasps, ... describe
DatasetName == "ds"

\* what an operation can change: the handles, the directories, the dataset
State == [database |-> database, dataset |-> dataset, temp_dirs |-> temp_dirs.present,
          _database_temp_cache_dir |-> _database_temp_cache_dir,
          output_dirs |-> output_dirs, object_data |-> dataset_object_data,
          dataset_name |-> dataset_name, created_datasets |-> created_datasets,
          grasps |-> dataset_grasps, grasp_metrics |-> dataset_grasp_metrics,
          metrics |-> dataset_metrics, objects |-> dataset_objects]

\* the state at the call of _compute_metrics, the inputs drawn from the sets of U
InitFrom(U) ==
    /\ obj \in [key : {"obj"}, mass : U.masses]
    /\ gripper \in U.grippers
    /\ dataset_stable_poses \in U.poselists
    /\ config \in [max_stable_poses : U.maxposes,
                   metrics : U.metricdicts,
                   delete_previous_metrics : U.deletes,
                   metric_display_rate : U.rates]
    /\ args \in [stable_pose_id : {None} \cup U.poseargs,
                 metric_name : {None} \cup U.metricargs,
                 overwrite : U.overwrites]
    /\ args.stable_pose_id # None =>
          \E i \in DOMAIN dataset_stable_poses : dataset_stable_poses[i].id = args.stable_pose_id
    /\ grasps \in U.grasplists
    /\ dataset_grasp_metrics \in [Range([i \in DOMAIN grasps |-> grasps[i].id]) -> U.stored]
    /\ dataset_metrics \in U.registered
    /\ pc = "load"
    /\ stable_poses = <<>>
    /\ metric_dict = {}
    /\ metric_names = <<>>
    /\ metric_configs = <<>>
    /\ zi = 0
    /\ ind = 0
    /\ k = 0
    /\ grasp_metrics = <<>>
    /\ progress = <<0, 1>>
    /\ variants = <<>>
    /\ nvariant = 0
    /\ calls = <<>>
    /\ last = NoEval
    /\ database = "open"
    /\ dataset = "open"
    /\ temp_dirs = NoTempDirs
    /\ _database_temp_cache_dir = NoDir
    /\ output_dirs = <<>>
    /\ dataset_objects = (obj.key :> [mass |-> obj.mass, stable_poses |-> dataset_stable_poses])
    /\ dataset_object_data = [o \in DOMAIN dataset_objects |-> {}]
    /\ dataset_name = (IF dataset = None THEN None ELSE DatasetName)
    /\ created_datasets = <<>>
    /\ dataset_grasps = (<<obj.key, gripper.name>> :> grasps)
    /\ flushed = Contents
    /\ request = [op |-> "_compute_metrics", metric_name |-> args.metric_name,
                  object_name |-> obj.key, gripper_name |-> gripper.name,
                  stable_pose |-> args.stable_pose_id, overwrite |-> args.overwrite]
    /\ script = <<>>
    /\ todo = <<>>
    /\ exc = "None"
    /\ before = State
    /\ passes = <<>>
    /\ memo = U.memo
    /\ events = <<>>

(***************************************************************************)
(* Lines 491-503: load the grasps and the stable poses, subsample.          *)
(***************************************************************************)
\* lines 495-498
LoadedStablePoses ==
    IF args.stable_pose_id = None
    THEN dataset_stable_poses
    ELSE <<CHOOSE s \in Range(dataset_stable_poses) : s.id = args.stable_pose_id>>

LoadStablePoses ==
    /\ pc = "load"
    /\ LET loaded == LoadedStablePoses
           p == Normalize([i \in DOMAIN loaded |-> loaded[i].p])
       IN IF Subsampled(loaded, config)
          THEN \/ /\ ChoiceRaises(loaded, config.max_stable_poses, p)
                  /\ pc' = "raised"
                  /\ exc' = "ValueError"
                  /\ stable_poses' = loaded
               \/ /\ ChoiceReturns(loaded, config.max_stable_poses, p)
                  /\ stable_poses' \in ChoiceResults(loaded, config.max_stable_poses, p)
                  /\ pc' = "setup"
                  /\ UNCHANGED exc
          ELSE /\ stable_poses' = loaded
               /\ pc' = "setup"
               /\ UNCHANGED exc
    /\ UNCHANGED <<inputs, dataset_grasp_metrics, dataset_metrics, grasps, metric_dict,
                   metric_names, metric_configs, zi, ind, k, grasp_metrics, progress,
                   variants, nvariant, calls, last, session, memo, events>>

(***************************************************************************)
(* Lines 505-512: the metrics to compute.                                   *)
(***************************************************************************)
\* a slip: the pass takes up every configured metric whatever metric_name is
SelectedMetricsAll == DOMAIN config.metrics

\* lines 506-508: the names of the metrics the pass iterates over
SelectedMetrics ==
    IF args.metric_name # None /\ args.metric_name \in DOMAIN config.metrics
    THEN {args.metric_name}
    ELSE DOMAIN config.metrics

SetupMetrics ==
    /\ pc = "setup"
    /\ metric_dict' = SelectedMetrics
    /\ grasp_metrics' = <<>>
    /\ pc' = "metric"
    /\ UNCHANGED <<inputs, dataset_grasp_metrics, dataset_metrics, grasps, stable_poses,
                   metric_names, metric_configs, zi, ind, k, progress, variants, nvariant,
                   calls, last, session, exc, memo, events>>

(***************************************************************************)
(* Lines 513-541: one iteration of the metric loop up to the zip loop.      *)
(* A dict is iterated in an order the program does not choose.              *)
(***************************************************************************)
\* dataset.delete_grasp_metrics(obj.key, grasps, metric_name, gripper)
delete_grasp_metrics(stored, gs, metric_name) ==
    [g \in DOMAIN stored |->
        IF \E i \in DOMAIN gs : gs[i].id = g
        THEN [n \in DOMAIN stored[g] \ {metric_name} |-> stored[g][n]]
        ELSE stored[g]]

\* a slip: the index is set to 0 once, before the loop over the metrics
ResetIndOnce(old) == old

\* line 541: ind = 0, before the loop over the variants of each metric
ResetInd(old) == 0

BeginMetric ==
    /\ pc = "metric"
    /\ \E metric_name \in metric_dict :
          LET metric_config == create_config(config.metrics[metric_name])
          IN /\ metric_dict' = metric_dict \ {metric_name}
             /\ dataset_grasp_metrics' =
                   IF config.delete_previous_metrics
                   THEN delete_grasp_metrics(dataset_grasp_metrics, grasps, metric_name)
                   ELSE dataset_grasp_metrics
             /\ metric_names' = ExpandMetricNames(metric_name, metric_config, stable_poses)
             /\ metric_configs' = ExpandMetricConfigs(obj, metric_config, stable_poses)
             /\ variants' = variants \o
                   [i \in DOMAIN metric_names' |->
                       [metric |-> metric_name,
                        spec |-> config.metrics[metric_name],
                        name |-> metric_names'[i],
                        config |-> metric_configs'[i]]]
             /\ events' = IF config.delete_previous_metrics
                           THEN Append(events, Event("delete_grasp_metrics", metric_name, 0, FALSE))
                           ELSE events
    /\ ind' = ResetInd(ind)
    /\ zi' = 1
    /\ pc' = "variant"
    /\ UNCHANGED <<inputs, dataset_metrics, grasps, stable_poses, k, grasp_metrics,
                   progress, nvariant, calls, last, session, exc, memo>>

(***************************************************************************)
(* Lines 542-558: register the variant, merge the gripper parameters,       *)
(* create the quality function.                                             *)
(***************************************************************************)
\* a slip: the exception is caught and noted, and the loop goes on
PropagateCaught(e, here) == /\ pc' = here
                            /\ exc' = e

\* an exception leaves the operation: no handler in _compute_metrics or its callers
Propagate(e, here) == /\ pc' = "raised"
                      /\ exc' = e

\* a slip: the store is not asked
has_metric_never(stored_metrics, metric_name) == FALSE

\* line 546: self.dataset.has_metric(metric_name)
has_metric(stored_metrics, metric_name) == metric_name \in stored_metrics

BeginVariant ==
    /\ pc = "variant"
    /\ zi <= Len(metric_names)
    /\ dataset_metrics' = IF ~has_metric(dataset_metrics, metric_names[zi])
                          THEN dataset_metrics \cup {metric_names[zi]}
                          ELSE dataset_metrics
    /\ events' = IF ~has_metric(dataset_metrics, metric_names[zi])
                 THEN Append(events, Event("create_metric", metric_names[zi], 0, FALSE))
                 ELSE events
    /\ metric_configs' = [metric_configs EXCEPT ![zi] = WithGripperParams(@, gripper)]
    /\ \/ /\ nvariant' = nvariant + 1
          /\ k' = 1
          /\ pc' = "grasp"
          /\ UNCHANGED exc
       \/ \* line 558: create_quality_function raises
          /\ Propagate("Exception", "variant")
          /\ UNCHANGED <<nvariant, k>>
    /\ UNCHANGED <<inputs, dataset_grasp_metrics, grasps, stable_poses, metric_dict,
                   metric_names, zi, ind, grasp_metrics, progress, variants, calls, last,
                   session, memo>>

(***************************************************************************)
(* Lines 561-612: one iteration of the grasp loop.                          *)
(***************************************************************************)
\* grasp.perpendicular_table(stable_pose): a re-aligned copy of the grasp
perpendicular_table(grasp, stable_pose) ==
    {[id |-> grasp.id, x_axis |-> x, aligned |-> TRUE] : x \in XAxes}

\* aligned_grasp.grasp_angles_from_stp_z(stable_pose)[1]
grasp_angles_from_stp_z(aligned_grasp, stable_pose) == Angles

\* quality_fn(grasp).quality
quality_fn(metric_config, grasp) == Qualities

\* a slip: a function gives any of its results whatever it gave before
ResultsFree(m, key, S) == S

\* the results a call may give: the one it gave before when the functions are deterministic
Results(m, key, S) == IF memo.on /\ key \in DOMAIN m THEN {m[key]} ELSE S

\* the call may raise, unless it is known to return
MayRaise(m, key) == ~(memo.on /\ key \in DOMAIN m)

Remember(m, key, v) == IF memo.on THEN Put(m, key, v) ELSE m

\* a slip: progress is written at every grasp
ProgressAlways(kk, n, old) == <<kk, n>>

\* lines 562-564
Progress(kk, n, old) ==
    IF (kk - 1) % config.metric_display_rate = 0 THEN <<kk, n>> ELSE old

\* a slip: the entry of a grasp is left to the assignment of its first value
InitGraspMetricsLazy(gm, id) == gm

\* lines 567-568
InitGraspMetrics(gm, id) == IF id \notin DOMAIN gm THEN Put(gm, id, <<>>) ELSE gm

\* grasp_metrics[grasp.id][metric_name] = q
Record(gm, id, metric_name, q) == [gm EXCEPT ![id] = Put(@, metric_name, q)]

\* a value is already recorded under (id, metric_name) in this pass
Recorded(id, metric_name) ==
    id \in DOMAIN grasp_metrics /\ metric_name \in DOMAIN grasp_metrics[id]

CallCount(key) == IF key \in DOMAIN calls THEN calls[key] ELSE 0

\* a slip: q is left unset when the grasp is not perpendicular to the table
InfeasibleQualityUnset == NoNumber

\* line 594: the quality of a grasp that is not perpendicular to the table
InfeasibleQuality == 0

\* a slip: the grasp is re-aligned for every gripper
AlignedGraspsAlways(grasp, stable_pose) == perpendicular_table(grasp, stable_pose)

\* lines 580-584: the grasps the feasibility check may be made on
AlignedGrasps(grasp, stable_pose) ==
    IF gripper.type = "parallel_jaw"
    THEN perpendicular_table(grasp, stable_pose)
    ELSE {grasp}

\* the iteration ends and the loop goes to the next grasp
NextGrasp == /\ k' = k + 1
             /\ UNCHANGED <<pc, exc>>

\* quality_fn raises in the middle of the iteration of lines 561-612
QualityFnRaises(grasp, key) ==
    /\ calls' = Put(calls, key, CallCount(key) + 1)
    /\ grasp_metrics' = InitGraspMetrics(grasp_metrics, grasp.id)
    /\ Propagate("Exception", "grasp")
    /\ UNCHANGED <<k, last, memo>>

\* lines 572-599
GravityGraspStep(grasp, metric_name, metric_config) ==
    LET stable_pose == stable_poses[ind + 1]
        key == <<nvariant, grasp.id>>
        report(aligned_grasp, angle, perp, invoked, quality) ==
            [kind |-> "gravity", nvariant |-> nvariant, grasp |-> grasp, name |-> metric_name,
             replaced |-> Recorded(grasp.id, metric_name),
             config |-> metric_config, pose |-> stable_pose,
             aligned_grasp |-> aligned_grasp, angle |-> angle,
             perpendicular_table |-> perp, invoked |-> invoked,
             arg |-> IF invoked THEN aligned_grasp ELSE None, quality |-> quality]
        akey == <<grasp, stable_pose.id>>
    IN \E aligned_grasp \in Results(memo.aligned, akey, AlignedGrasps(grasp, stable_pose)) :
       LET gkey == <<aligned_grasp, stable_pose.id>>
       IN
       \E grasp_approach_table_angle \in
              Results(memo.angle, gkey, grasp_angles_from_stp_z(aligned_grasp, stable_pose)) :
          LET stp_z == stable_pose.r[3]
              perp == PerpendicularTable(grasp_approach_table_angle, metric_config,
                                         stp_z, aligned_grasp.x_axis)
              qkey == <<metric_config, aligned_grasp>>
              seen == [memo EXCEPT
                          !.aligned = Remember(@, akey, aligned_grasp),
                          !.angle = Remember(@, gkey, grasp_approach_table_angle)]
          IN IF perp
             THEN \/ \E quality \in Results(memo.quality, qkey,
                                             quality_fn(metric_config, aligned_grasp)) :
                        /\ calls' = Put(calls, key, CallCount(key) + 1)
                        /\ grasp_metrics' =
                              Record(InitGraspMetrics(grasp_metrics, grasp.id), grasp.id,
                                     metric_name, quality)
                        /\ last' = report(aligned_grasp, grasp_approach_table_angle, perp,
                                           TRUE, quality)
                        /\ memo' = [seen EXCEPT !.quality = Remember(@, qkey, quality)]
                        /\ NextGrasp
                  \/ /\ MayRaise(memo.quality, qkey)
                     /\ QualityFnRaises(grasp, key)
             ELSE /\ grasp_metrics' =
                        Record(InitGraspMetrics(grasp_metrics, grasp.id), grasp.id,
                               metric_name, InfeasibleQuality)
                  /\ last' = report(aligned_grasp, grasp_approach_table_angle, perp,
                                     FALSE, NoNumber)
                  /\ memo' = seen
                  /\ NextGrasp
                  /\ UNCHANGED calls

\* a slip: a stored value is kept whatever the overwrite flag says
SkipsExistingAlways(existing_metrics, metric_name, overwrite) ==
    metric_name \in DOMAIN existing_metrics

\* line 603: the stored value is kept and the grasp skipped
SkipsExisting(existing_metrics, metric_name, overwrite) ==
    metric_name \in DOMAIN existing_metrics /\ ~overwrite

\* lines 601-612
RegularGraspStep(grasp, metric_name, metric_config) ==
    LET existing_metrics == dataset_grasp_metrics[grasp.id]
        key == <<nvariant, grasp.id>>
        qkey == <<metric_config, grasp>>
        report(kind, invoked, quality) ==
            [kind |-> kind, nvariant |-> nvariant, grasp |-> grasp, name |-> metric_name,
             replaced |-> invoked /\ Recorded(grasp.id, metric_name),
             config |-> metric_config, pose |-> None, aligned_grasp |-> grasp,
             angle |-> NoNumber,
             perpendicular_table |-> FALSE, invoked |-> invoked,
             arg |-> IF invoked THEN grasp ELSE None, quality |-> quality]
    IN IF SkipsExisting(existing_metrics, metric_name, args.overwrite)
       THEN /\ grasp_metrics' = InitGraspMetrics(grasp_metrics, grasp.id)
            /\ last' = report("skipped", FALSE, NoNumber)
            /\ NextGrasp
            /\ UNCHANGED <<calls, memo>>
       ELSE \/ \E quality \in Results(memo.quality, qkey, quality_fn(metric_config, grasp)) :
                  /\ calls' = Put(calls, key, CallCount(key) + 1)
                  /\ grasp_metrics' =
                        Record(InitGraspMetrics(grasp_metrics, grasp.id), grasp.id,
                               metric_name, quality)
                  /\ last' = report("regular", TRUE, quality)
                  /\ memo' = [memo EXCEPT !.quality = Remember(@, qkey, quality)]
                  /\ NextGrasp
            \/ /\ MayRaise(memo.quality, qkey)
               /\ QualityFnRaises(grasp, key)

GraspStep ==
    /\ pc = "grasp"
    /\ k <= Len(grasps)
    /\ progress' = Progress(k, Len(grasps), progress)
    /\ events' = Append(events, Event("grasp", metric_names[zi], grasps[k].id, FALSE))
    /\ IF IsGravityMethod(metric_configs[zi].quality_method)
       THEN GravityGraspStep(grasps[k], metric_names[zi], metric_configs[zi])
       ELSE RegularGraspStep(grasps[k], metric_names[zi], metric_configs[zi])
    /\ UNCHANGED <<inputs, dataset_grasp_metrics, dataset_metrics, grasps, stable_poses,
                   metric_dict, metric_names, metric_configs, zi, ind, variants, nvariant,
                   session>>

\* lines 614-615: the grasps of the variant are done
EndVariant ==
    /\ pc = "grasp"
    /\ k > Len(grasps)
    /\ ind' = ind + 1
    /\ zi' = zi + 1
    /\ pc' = "variant"
    /\ UNCHANGED <<inputs, dataset_grasp_metrics, dataset_metrics, grasps, stable_poses,
                   metric_dict, metric_names, metric_configs, k, grasp_metrics, progress,
                   variants, nvariant, calls, last, session, exc, memo, events>>

\* the zip loop of line 542 is exhausted: next metric
EndMetric ==
    /\ pc = "variant"
    /\ zi > Len(metric_names)
    /\ pc' = "metric"
    /\ UNCHANGED <<inputs, dataset_grasp_metrics, dataset_metrics, grasps, stable_poses,
                   metric_dict, metric_names, metric_configs, zi, ind, k, grasp_metrics,
                   progress, variants, nvariant, calls, last, session, exc, memo, events>>

(***************************************************************************)
(* Lines 617-619: store the record.                                         *)
(***************************************************************************)
\* dataset.store_grasp_metrics(obj.key, grasp_metrics, gripper, force_overwrite=True)
store_grasp_metrics(stored, gm, force_overwrite) ==
    [g \in DOMAIN stored \cup DOMAIN gm |->
        IF g \notin DOMAIN gm THEN stored[g]
        ELSE IF g \notin DOMAIN stored THEN gm[g]
        ELSE [n \in DOMAIN stored[g] \cup DOMAIN gm[g] |->
                IF n \in DOMAIN gm[g] /\ (force_overwrite \/ n \notin DOMAIN stored[g])
                THEN gm[g][n] ELSE stored[g][n]]]

\* a slip: the caller's overwrite flag is handed on
ForceOverwriteAsCaller(overwrite) == overwrite

\* line 619: force_overwrite=True
ForceOverwrite(overwrite) == TRUE

StoreGraspMetrics ==
    /\ pc = "metric"
    /\ metric_dict = {}
    /\ dataset_grasp_metrics' = store_grasp_metrics(dataset_grasp_metrics, grasp_metrics,
                                                    ForceOverwrite(args.overwrite))
    /\ events' = Append(events, Event("store_grasp_metrics", obj.key, Len(todo),
                                      ForceOverwrite(args.overwrite)))
    /\ passes' = Append(passes, [obj |-> obj, gripper |-> gripper, args |-> args,
                                 stable_poses |-> stable_poses,
                                 stored |-> dataset_grasp_metrics'])
    /\ pc' = "done"
    /\ UNCHANGED <<inputs, dataset_metrics, grasps, stable_poses, metric_dict, metric_names,
                   metric_configs, zi, ind, k, grasp_metrics, progress, variants, nvariant,
                   calls, last, instance, exc, memo>>

Next ==
    \/ LoadStablePoses
    \/ SetupMetrics
    \/ BeginMetric
    \/ BeginVariant
    \/ GraspStep
    \/ EndVariant
    \/ EndMetric
    \/ StoreGraspMetrics

(***************************************************************************)
(* compute_metrics, lines 660-700.                                          *)
(***************************************************************************)
\* self.list_grippers(config): the names of the grippers of the gripper directory
list_grippers == {g.name : g \in Grippers}

\* gr.RobotGripper.load(gripper_name)
RobotGripperLoad(gripper_name) == CHOOSE g \in Grippers : g.name = gripper_name

\* a slip: every pair is taken to have grasps
has_grasps_always(object_name, gripper_name) == TRUE

\* self.dataset.has_grasps(object_name, gripper=gripper.name)
has_grasps(object_name, gripper_name) ==
    /\ <<object_name, gripper_name>> \in DOMAIN dataset_grasps
    /\ dataset_grasps[<<object_name, gripper_name>>] # <<>>

\* the object keys and the gripper names, in the order the dataset (object_keys)
\* and the gripper directory (list_grippers) list them
ObjectKeys == <<"o1", "o2">>

GripperNames == <<"yumi", "cup">>

Index(s, x) == CHOOSE i \in DOMAIN s : s[i] = x

\* the elements of the list s that are in S, in the order of s
Listed(s, S) == SelectSeq(s, LAMBDA x : x \in S)

\* the orders a for loop can run over the keys S of a dict in
Orders(S) == {s \in [1..Cardinality(S) -> S] : Range(s) = S}

\* the iterations of three nested for loops, outermost first
LoopNest(as, bs, cs) ==
    [i \in 1..(Len(as) * Len(bs) * Len(cs)) |->
        <<as[((i - 1) \div (Len(bs) * Len(cs))) + 1],
          bs[(((i - 1) \div Len(cs)) % Len(bs)) + 1],
          cs[((i - 1) % Len(cs)) + 1]>>]

\* lines 132-137: the exception _check_opens raises, "None" when it returns
_check_opens ==
    IF database = None THEN "RuntimeError"
    ELSE IF dataset = None THEN "RuntimeError"
    ELSE "None"

\* what reading a dataset through the handle of a closed database raises (h5py)
ClosedHandleErrors == {"ValueError", "RuntimeError"}

\* line 679: the exception for a metric_name that is not in config['metrics']
UnknownMetricError == "RuntimeError"

\* the operation is left by exception e before it did anything
RaiseAtEntry(e) ==
    /\ pc' = "raised"
    /\ exc' = e
    /\ todo' = <<>>

\* the call of a public operation: the client's next request is taken up
Called(op) ==
    /\ pc = "idle"
    /\ script # <<>>
    /\ Head(script).op = op
    /\ request' = Head(script)
    /\ script' = Tail(script)
    /\ before' = State

\* lines 660-682: the checks and the lists the loops run over
compute_metrics ==
    /\ Called("compute_metrics")
    /\ LET r == Head(script)
       IN IF _check_opens # "None" THEN RaiseAtEntry(_check_opens)
          ELSE IF r.gripper_name # None /\ r.gripper_name \notin list_grippers
               THEN RaiseAtEntry("ValueError")
          ELSE IF dataset = "closed"
               THEN \E e \in ClosedHandleErrors : RaiseAtEntry(e)
          ELSE IF r.object_name # None /\ r.object_name \notin DOMAIN dataset_objects
               THEN RaiseAtEntry("ValueError")
          ELSE IF r.metric_name # None /\ r.metric_name \notin DOMAIN config.metrics
               THEN RaiseAtEntry(UnknownMetricError)
          ELSE LET grippers == IF r.gripper_name # None THEN {r.gripper_name}
                               ELSE list_grippers
                   objects == IF r.object_name # None THEN {r.object_name}
                              ELSE DOMAIN dataset_objects
                   metrics == IF r.metric_name # None THEN {r.metric_name}
                              ELSE DOMAIN config.metrics
               IN /\ \E ms \in Orders(metrics) :
                        todo' = LoopNest(Listed(ObjectKeys, objects),
                                         Listed(GripperNames, grippers), ms)
                  /\ pc' = "tuple"
                  /\ exc' = "None"
    /\ events' = Append(events, Event("compute_metrics", None, Len(script), FALSE))
    /\ UNCHANGED <<inputs, dataset_grasp_metrics, dataset_metrics, grasps, stable_poses,
                   metric_dict, metric_names, metric_configs, zi, ind, k, grasp_metrics,
                   progress, database, dataset, housekeeping, dataset_objects, dataset_grasps,
                   flushed, variants, nvariant, calls, last, memo, passes>>

\* lines 683-696: the next (object, gripper, metric); _compute_metrics is entered
\* (line 492 loads the grasps) unless the pair has no grasps
BeginPass ==
    /\ pc = "tuple"
    /\ request.op = "compute_metrics"
    /\ todo # <<>>
    /\ LET obj_name == Head(todo)[1]
           gripper_name == Head(todo)[2]
           metric == Head(todo)[3]
       IN /\ gripper' = RobotGripperLoad(gripper_name)
          /\ IF ~has_grasps(obj_name, gripper_name)
             THEN /\ pc' = "raised"
                  /\ exc' = "RuntimeWarning"
                  /\ events' = Append(events, Event("RuntimeWarning", obj_name,
                                                    Index(GripperNames, gripper_name), FALSE))
                  /\ UNCHANGED <<obj, args, dataset_stable_poses, grasps>>
             ELSE /\ obj' = [key |-> obj_name, mass |-> dataset_objects[obj_name].mass]
                  /\ args' = [stable_pose_id |-> request.stable_pose, metric_name |-> metric,
                              overwrite |-> request.overwrite]
                  /\ dataset_stable_poses' = dataset_objects[obj_name].stable_poses
                  /\ grasps' = dataset_grasps[<<obj_name, gripper_name>>]
                  /\ events' = Append(events, Event("_compute_metrics", metric, Len(todo), FALSE))
                  /\ pc' = "load"
                  /\ UNCHANGED exc
    /\ todo' = Tail(todo)
    /\ stable_poses' = <<>>
    /\ metric_dict' = {}
    /\ metric_names' = <<>>
    /\ metric_configs' = <<>>
    /\ zi' = 0
    /\ ind' = 0
    /\ k' = 0
    /\ grasp_metrics' = <<>>
    /\ variants' = <<>>
    /\ nvariant' = 0
    /\ calls' = <<>>
    /\ last' = NoEval
    /\ UNCHANGED <<config, dataset_grasp_metrics, dataset_metrics, progress, database, dataset,
                   housekeeping, dataset_objects, dataset_grasps, flushed, script, request,
                   before, memo, passes>>

\* a slip: the flush writes nothing out
FlushKeeps(contents, old) == old

\* self.database.flush(): what is on disk afterwards
FlushWrites(contents, old) == contents

\* lines 697-698: the pass has returned
Flush ==
    /\ pc = "done"
    /\ request.op = "compute_metrics"
    /\ flushed' = FlushWrites(Contents, flushed)
    /\ events' = Append(events, Event("flush", request.op, Len(todo), FALSE))
    /\ pc' = "tuple"
    /\ UNCHANGED <<inputs, dataset_grasp_metrics, dataset_metrics, grasps, stable_poses,
                   metric_dict, metric_names, metric_configs, zi, ind, k, grasp_metrics,
                   progress, database, dataset, housekeeping, dataset_objects, dataset_grasps,
                   script, request, todo, exc, variants, nvariant, calls, last, memo,
                   before, passes>>

\* the loops of lines 683-686 are exhausted: compute_metrics returns
Return ==
    /\ pc = "tuple"
    /\ todo = <<>>
    /\ pc' = "idle"
    /\ UNCHANGED <<inputs, dataset_grasp_metrics, dataset_metrics, grasps, stable_poses,
                   metric_dict, metric_names, metric_configs, zi, ind, k, grasp_metrics,
                   progress, instance, exc, variants, nvariant, calls, last, memo, passes,
                   events>>

(***************************************************************************)
(* Specifications.                                                          *)
(***************************************************************************)
\* the stable poses of the pass: "a" rests on the table with normal +z, "b" upside down
PoseA == [id |-> "a", p |-> 1, r |-> RotId]

PoseB == [id |-> "b", p |-> 1, r |-> RotFlip]

Metric(quality_method, max_approach_table_angle) ==
    [quality_method |-> quality_method, max_approach_table_angle |-> max_approach_table_angle]

\* the metric pass on small inputs
PassInputs ==
    [masses |-> {1},
     grippers |-> Grippers,
     poselists |-> {<<PoseA>>, <<PoseA, PoseB>>},
     maxposes |-> 1..MaxCfgStablePoses,
     metricdicts |-> {("m" :> Metric("wrench_resistance", 30)),
                      ("m" :> Metric("force_closure", 30)),
                      ("m" :> Metric("partial_closure", 90))
                          @@ ("m_a" :> Metric("force_closure", 90)),
                      ("m" :> Metric("suction_wrench_resistance", 90))
                          @@ ("m_a" :> Metric("force_closure", 30))},
     deletes |-> {FALSE},
     rates |-> {1},
     poseargs |-> {},
     metricargs |-> {"m"},
     overwrites |-> {TRUE},
     grasplists |-> GraspLists(MaxGrasps, {<<0, 0, -1>>, <<1, 0, 0>>}),
     stored |-> {<<>>},
     registered |-> {{}},
     memo |-> NoMemo]

Init == InitFrom(PassInputs)

Spec == Init /\ [][Next]_vars

\* the stable-pose sampler on every list of at most MaxPoses poses
SamplerInputs ==
    [masses |-> {1},
     grippers |-> {g \in Grippers : g.type = "suction"},
     poselists |-> PoseLists(PoseIds, Probs, {RotId}, MaxPoses),
     maxposes |-> 0..MaxCfgStablePoses,
     metricdicts |-> {<<>>},
     deletes |-> {FALSE},
     rates |-> {1},
     poseargs |-> {"a"},
     metricargs |-> {},
     overwrites |-> {TRUE},
     grasplists |-> {<<>>},
     stored |-> {<<>>},
     registered |-> {{}},
     memo |-> NoMemo]

InitSampler == InitFrom(SamplerInputs)

NextSampler == LoadStablePoses

SpecSampler == InitSampler /\ [][NextSampler]_vars

\* metric expansion and the gravity wrench, for an object without grasps
ExpandInputs ==
    [masses |-> 0..MaxMass,
     grippers |-> {g \in Grippers : g.type = "parallel_jaw"},
     poselists |-> PoseLists({"a", "b"}, {1}, Rotations, 2),
     maxposes |-> {MaxCfgStablePoses},
     metricdicts |-> Dicts({"m", "m_a"}, {Metric(qm, 30) : qm \in QualityMethods}),
     deletes |-> {FALSE},
     rates |-> {1},
     poseargs |-> {},
     metricargs |-> {"m"},
     overwrites |-> {TRUE},
     grasplists |-> {<<>>},
     stored |-> {<<>>},
     registered |-> {{}},
     memo |-> NoMemo]

InitExpand == InitFrom(ExpandInputs)

NextExpand ==
    \/ LoadStablePoses
    \/ SetupMetrics
    \/ BeginMetric
    \/ BeginVariant
    \/ EndVariant
    \/ EndMetric
    \/ StoreGraspMetrics

SpecExpand == InitExpand /\ [][NextExpand]_vars

\* a pass over grasps that already have stored values, with either overwrite flag
StoredInputs ==
    [masses |-> {1},
     grippers |-> {g \in Grippers : g.type = "parallel_jaw"},
     poselists |-> {<<PoseA>>, <<PoseA, PoseB>>},
     maxposes |-> {MaxCfgStablePoses},
     metricdicts |-> {("m" :> Metric("force_closure", 30)),
                      ("m" :> Metric("partial_closure", 90))},
     deletes |-> BOOLEAN,
     rates |-> {1},
     poseargs |-> {},
     metricargs |-> {"m"},
     overwrites |-> BOOLEAN,
     grasplists |-> GraspLists(MaxStoredGrasps, {<<0, 0, -1>>}),
     stored |-> {<<>>, ("m" :> 5) @@ ("m_a" :> 5) @@ ("m_b" :> 5)},
     registered |-> {{"m"}},
     memo |-> NoMemo]

InitStored == InitFrom(StoredInputs)

SpecStored == InitStored /\ [][Next]_vars

(***************************************************************************)
(* The public operations on a dataset of several objects.                   *)
(***************************************************************************)
\* the key of a grasp in the dataset: the object, the gripper and the grasp's number
GraspId(o, g, i) == 100 * Index(ObjectKeys, o) + 10 * Index(GripperNames, g) + i

\* the lists of grasps stored for the pair (o, g): none, or n of them
PairGraspLists(o, g, n, xs) ==
    UNION {{[i \in 1..m |-> [id |-> GraspId(o, g, i), x_axis |-> xf[i], aligned |-> FALSE]] :
                xf \in [1..m -> xs]} : m \in {0, n}}

\* the grasps a dataset of the objects os can hold
PairGrasps(os, n, xs) ==
    {f \in [os \X list_grippers -> UNION {PairGraspLists(p[1], p[2], n, xs) :
                                            p \in os \X list_grippers}] :
        \A p \in os \X list_grippers : f[p] \in PairGraspLists(p[1], p[2], n, xs)}

\* the ids of all the grasps stored
StoredIds == UNION {Range([i \in DOMAIN dataset_grasps[p] |-> dataset_grasps[p][i].id]) :
                      p \in DOMAIN dataset_grasps}

\* an object of the dataset
Graspable(mass, poses) == [mass |-> mass, stable_poses |-> poses]

\* a request of the client
Call(op, metric_name, object_name, gripper_name, overwrite) ==
    [op |-> op, metric_name |-> metric_name, object_name |-> object_name,
     gripper_name |-> gripper_name, stable_pose |-> None, overwrite |-> overwrite,
     path |-> None, cache_dir |-> None, files |-> <<>>, isdir |-> FALSE,
     mass |-> NoNumber, use_default_mass |-> FALSE]

\* no object or gripper is loaded
NoObject == [key |-> None, mass |-> 0]

NoGripper == [name |-> None, type |-> None, force_limit |-> NoNumber,
              finger_radius |-> NoNumber, has_inner_radius |-> FALSE,
              inner_radius |-> NoNumber, has_height |-> FALSE, height |-> NoNumber]

\* an instance with no operation in progress, the dataset and the client's calls
\* drawn from the sets of U
InitApi(U) ==
    /\ database \in U.databases
    /\ dataset \in U.datasets
    /\ temp_dirs = NoTempDirs
    /\ _database_temp_cache_dir = NoDir
    /\ output_dirs = <<>>
    /\ dataset_objects \in U.objects
    /\ dataset_object_data = [o \in DOMAIN dataset_objects |-> {}]
    /\ dataset_name = (IF dataset = None THEN None ELSE DatasetName)
    /\ created_datasets = <<>>
    /\ dataset_grasps \in PairGrasps(DOMAIN dataset_objects, U.maxgrasps, U.xs)
    /\ dataset_grasp_metrics \in [StoredIds -> U.stored]
    /\ dataset_metrics \in U.registered
    /\ flushed = Contents
    /\ config \in [max_stable_poses : U.maxposes,
                   metrics : U.metricdicts,
                   delete_previous_metrics : U.deletes,
                   metric_display_rate : U.rates]
    /\ Cardinality(DOMAIN dataset_objects) * Cardinality(list_grippers)
           * Cardinality(DOMAIN config.metrics) <= MaxTuples
    /\ script \in U.scripts
    /\ request = Call("None", None, None, None, FALSE)
    /\ todo = <<>>
    /\ exc = "None"
    /\ pc = "idle"
    /\ obj = NoObject
    /\ gripper = NoGripper
    /\ args = [stable_pose_id |-> None, metric_name |-> None, overwrite |-> FALSE]
    /\ dataset_stable_poses = <<>>
    /\ grasps = <<>>
    /\ stable_poses = <<>>
    /\ metric_dict = {}
    /\ metric_names = <<>>
    /\ metric_configs = <<>>
    /\ zi = 0
    /\ ind = 0
    /\ k = 0
    /\ grasp_metrics = <<>>
    /\ progress = <<0, 1>>
    /\ variants = <<>>
    /\ nvariant = 0
    /\ calls = <<>>
    /\ last = NoEval
    /\ before = State
    /\ passes = <<>>
    /\ memo = U.memo
    /\ events = <<>>

\* compute_metrics called once on a dataset of one or two objects, with good and bad names
MetricsInputs ==
    [databases |-> {"open"},
     datasets |-> {"open"},
     objects |-> {("o1" :> Graspable(1, <<PoseA, PoseB>>)),
                  ("o1" :> Graspable(1, <<PoseA, PoseB>>))
                      @@ ("o2" :> Graspable(1, <<PoseA>>))},
     maxgrasps |-> MaxPairGrasps,
     xs |-> {<<0, 0, -1>>},
     stored |-> {<<>>},
     registered |-> {{}},
     maxposes |-> {MaxCfgStablePoses},
     metricdicts |-> {("m" :> Metric("force_closure", 30)),
                      ("m" :> Metric("force_closure", 30))
                          @@ ("w" :> Metric("wrench_resistance", 90)),
                      ("w" :> Metric("wrench_resistance", 90))
                          @@ ("w_a" :> Metric("force_closure", 30))},
     deletes |-> {FALSE},
     rates |-> {1},
     scripts |-> {<<Call("compute_metrics", mn, on, gn, ow)>> :
                     mn \in {None, "m", "nope"}, on \in {None, "o1", "ghost"},
                     gn \in {None, "cup", "claw"}, ow \in {TRUE}},
     memo |-> NoMemo]

InitMetrics == InitApi(MetricsInputs)

NextMetrics ==
    \/ compute_metrics
    \/ BeginPass
    \/ LoadStablePoses
    \/ SetupMetrics
    \/ BeginMetric
    \/ BeginVariant
    \/ GraspStep
    \/ EndVariant
    \/ EndMetric
    \/ StoreGraspMetrics
    \/ Flush
    \/ Return

SpecMetrics == InitMetrics /\ [][NextMetrics]_vars

\* compute_metrics called twice in a row with the same arguments for one object, one
\* gripper and one metric, overwrite=True; the external functions are deterministic
TwiceInputs ==
    [databases |-> {"open"},
     datasets |-> {"open"},
     objects |-> {("o1" :> Graspable(1, <<PoseA, PoseB>>))},
     maxgrasps |-> MaxPairGrasps,
     xs |-> {<<0, 0, -1>>},
     stored |-> {("m" :> 5) @@ ("m_a" :> 5)},
     registered |-> {{}},
     maxposes |-> {1, MaxCfgStablePoses},
     metricdicts |-> {("m" :> Metric("force_closure", 30)),
                      ("m" :> Metric("partial_closure", 90)),
                      ("m" :> Metric("suction_wrench_resistance", 30))},
     deletes |-> BOOLEAN,
     rates |-> {1},
     scripts |-> {<<Call("compute_metrics", "m", "o1", gn, TRUE),
                    Call("compute_metrics", "m", "o1", gn, TRUE)>> : gn \in list_grippers},
     memo |-> EmptyMemo]

\* the gripper asked for is the only one with grasps, and the metric is one for its type
InitTwice ==
    /\ InitApi(TwiceInputs)
    /\ \A p \in DOMAIN dataset_grasps :
          dataset_grasps[p] # <<>> <=> p[2] = script[1].gripper_name
    /\ config.metrics["m"].quality_method \in
          (IF script[1].gripper_name = "cup"
           THEN {"force_closure", "suction_wrench_resistance"}
           ELSE {"force_closure", "partial_closure"})

SpecTwice == InitTwice /\ [][NextMetrics]_vars

(***************************************************************************)
(* sample_grasps, lines 442-478.                                            *)
(***************************************************************************)
\* what sampler.generate_grasps can find for the pair: no grasp, or new ones
generate_grasps(object_name, gripper_name) ==
    PairGraspLists(object_name, gripper_name, MaxPairGrasps, XAxes)

\* lines 401-405: _single_obj_grasps returns scale, f, d, t and the grasps
_single_obj_grasps(sampled) == <<1, NoVector, NoVector, NoVector, sampled>>

\* line 400 raises ValueError for an unknown sampler; the sampler and the store can raise
SamplingErrors == {"ValueError", "Exception"}

\* dataset.delete_grasps(key, gripper): the pair has no grasps afterwards
delete_grasps(stored_grasps, pair) == [stored_grasps EXCEPT ![pair] = <<>>]

\* dataset.store_grasps(key, value, gripper): the pair holds the value given
store_grasps(stored_grasps, pair, value) == [stored_grasps EXCEPT ![pair] = value]

SkipsSamplingNever(had, overwrite) == FALSE

\* lines 463-469: a pair that has grasps is left alone unless overwrite is set
SkipsSampling(had, overwrite) == had /\ ~overwrite

\* lines 442-457: the checks and the lists the loops run over
sample_grasps ==
    /\ Called("sample_grasps")
    /\ LET r == Head(script)
       IN IF _check_opens # "None" THEN RaiseAtEntry(_check_opens)
          ELSE IF r.gripper_name # None /\ r.gripper_name \notin list_grippers
               THEN RaiseAtEntry("ValueError")
          ELSE IF dataset = "closed"
               THEN \E e \in ClosedHandleErrors : RaiseAtEntry(e)
          ELSE IF r.object_name # None /\ r.object_name \notin DOMAIN dataset_objects
               THEN RaiseAtEntry("ValueError")
          ELSE LET grippers == IF r.gripper_name # None THEN {r.gripper_name}
                               ELSE list_grippers
                   objects == IF r.object_name # None THEN {r.object_name}
                              ELSE DOMAIN dataset_objects
                   nest == LoopNest(Listed(GripperNames, grippers),
                                    Listed(ObjectKeys, objects), <<None>>)
               IN /\ todo' = [i \in DOMAIN nest |-> <<nest[i][2], nest[i][1], None>>]
                  /\ pc' = "tuple"
                  /\ exc' = "None"
    /\ events' = Append(events, Event("sample_grasps", None, Len(script), FALSE))
    /\ UNCHANGED <<inputs, dataset_grasp_metrics, dataset_metrics, grasps, stable_poses,
                   metric_dict, metric_names, metric_configs, zi, ind, k, grasp_metrics,
                   progress, database, dataset, housekeeping, dataset_objects, dataset_grasps,
                   flushed, variants, nvariant, calls, last, memo, passes>>

\* lines 459-478: one (gripper, object) of the loops
SamplePair ==
    /\ pc = "tuple"
    /\ request.op = "sample_grasps"
    /\ todo # <<>>
    /\ LET object_name == Head(todo)[1]
           gripper_name == Head(todo)[2]
           pair == <<object_name, gripper_name>>
           had == has_grasps(object_name, gripper_name)
           gi == Index(GripperNames, gripper_name)
       IN /\ gripper' = RobotGripperLoad(gripper_name)
          /\ todo' = Tail(todo)
          /\ IF SkipsSampling(had, request.overwrite)
             THEN \* lines 466-469: warning, continue
                  /\ events' = Append(events, Event("warning", object_name, gi, FALSE))
                  /\ last' = [kind |-> "kept", pair |-> pair, value |-> <<>>]
                  /\ UNCHANGED <<obj, dataset_grasps, flushed, pc, exc>>
             ELSE LET deleted == IF had THEN delete_grasps(dataset_grasps, pair)
                                 ELSE dataset_grasps
                      log == IF had
                             THEN Append(events, Event("delete_grasps", object_name, gi, FALSE))
                             ELSE events
                  IN /\ obj' = [key |-> object_name, mass |-> dataset_objects[object_name].mass]
                     /\ \/ \* lines 474-476: sample, store, flush
                           \E sampled \in generate_grasps(object_name, gripper_name) :
                              LET value == _single_obj_grasps(sampled)
                              IN /\ dataset_grasps' = store_grasps(deleted, pair, value)
                                 /\ flushed' = FlushWrites(
                                       [grasps |-> dataset_grasps',
                                        grasp_metrics |-> dataset_grasp_metrics,
                                        metrics |-> dataset_metrics,
                                        objects |-> DOMAIN dataset_objects], flushed)
                                 /\ events' = log \o
                                       <<Event("store_grasps", object_name, gi, FALSE),
                                         Event("flush", request.op, Len(todo), FALSE)>>
                                 /\ last' = [kind |-> "sampled", pair |-> pair,
                                             value |-> value]
                                 /\ UNCHANGED <<pc, exc>>
                        \/ \* line 474 or 475 raises
                           /\ \E e \in SamplingErrors : Propagate(e, "tuple")
                           /\ dataset_grasps' = deleted
                           /\ events' = log
                           /\ last' = [kind |-> "failed", pair |-> pair, value |-> <<>>]
                           /\ UNCHANGED flushed
    /\ UNCHANGED <<config, args, dataset_stable_poses, dataset_grasp_metrics, dataset_metrics,
                   grasps, stable_poses, metric_dict, metric_names, metric_configs, zi, ind,
                   k, grasp_metrics, progress, database, dataset, housekeeping, dataset_objects,
                   script, request, variants, nvariant, calls, memo, before, passes>>

\* sample_grasps called once on a dataset of two objects, some pairs with grasps
SampleInputs ==
    [databases |-> {"open"},
     datasets |-> {"open"},
     objects |-> {("o1" :> Graspable(1, <<PoseA>>)) @@ ("o2" :> Graspable(1, <<PoseA>>))},
     maxgrasps |-> MaxPairGrasps,
     xs |-> {<<0, 0, -1>>},
     stored |-> {<<>>},
     registered |-> {{}},
     maxposes |-> {MaxCfgStablePoses},
     metricdicts |-> {("m" :> Metric("force_closure", 30))},
     deletes |-> {FALSE},
     rates |-> {1},
     scripts |-> {<<Call("sample_grasps", None, on, gn, ow)>> :
                     on \in {None, "o1", "ghost"}, gn \in {None, "cup", "claw"},
                     ow \in BOOLEAN},
     memo |-> NoMemo]

InitSample == InitApi(SampleInputs)

NextSample ==
    \/ sample_grasps
    \/ SamplePair
    \/ Return

SpecSample == InitSample /\ [][NextSample]_vars

(***************************************************************************)
(* The session: open_database (lines 139-193), open_dataset (195-244),      *)
(* close_database (1182-1188) and the operations that start with           *)
(* _check_opens.                                                            *)
(***************************************************************************)
\* a request with a path (database_path, dataset_name or output_dir), a flag (create_db,
\* create_ds or overwrite) and config['cache_dir']
SessionCall(op, object_name, path, flag, cache_dir) ==
    [op |-> op, metric_name |-> None, object_name |-> object_name, gripper_name |-> None,
     stable_pose |-> None, overwrite |-> flag, path |-> path, cache_dir |-> cache_dir,
     files |-> <<>>, isdir |-> FALSE, mass |-> NoNumber, use_default_mass |-> FALSE]

\* the database file that exists
DatabaseFile == "db.hdf5"

\* db.HDF5_EXT
HasHdf5Ext(path) == path \in {"db.hdf5", "missing.hdf5"}

\* what the dataset raises for a key it does not hold
MissingObjectErrors == {"ValueError", "KeyError"}

\* what an operation works on
Here == [database |-> database, dataset |-> dataset, temp_dirs |-> temp_dirs,
         _database_temp_cache_dir |-> _database_temp_cache_dir,
         output_dirs |-> output_dirs, object_data |-> dataset_object_data,
         dataset_name |-> dataset_name, created_datasets |-> created_datasets,
         metrics |-> config.metrics,
         objects |-> dataset_objects, grasps |-> dataset_grasps,
         grasp_metrics |-> dataset_grasp_metrics]

\* the way an operation ends: the exception ("None" for a return) and what it leaves
Outcome(e, S) == [exc |-> e, state |-> S]

\* tempfile.mkdtemp(): a directory that never existed
mkdtemp(S) == [S EXCEPT !.temp_dirs = [made |-> @.made + 1,
                                       present |-> @.present \cup {@.made + 1}]]

\* shutil.rmtree(d) of a directory that exists
rmtree(S, d) == [S EXCEPT !.temp_dirs.present = @ \ {d}]

\* database.close(): the handle and the dataset handle it gave are closed
close(S) == [S EXCEPT !.database = "closed",
                      !.dataset = IF @ = None THEN None ELSE "closed"]

\* the temporary directory an operation works in when config['cache_dir'] is None
WithCache(S, cache_dir) == IF cache_dir = None THEN mkdtemp(S) ELSE S

\* shutil.rmtree of that directory (del_cache)
WithoutCache(S, cache_dir) == IF cache_dir = None THEN rmtree(S, S.temp_dirs.made) ELSE S

\* an operation of the session: the call, one of its outcomes
Operation(op, outcomes) ==
    /\ Called(op)
    /\ \E o \in outcomes :
          /\ exc' = o.exc
          /\ pc' = IF o.exc = "None" THEN "idle" ELSE "raised"
          /\ database' = o.state.database
          /\ dataset' = o.state.dataset
          /\ temp_dirs' = o.state.temp_dirs
          /\ _database_temp_cache_dir' = o.state._database_temp_cache_dir
          /\ output_dirs' = o.state.output_dirs
          /\ dataset_object_data' = o.state.object_data
          /\ dataset_name' = o.state.dataset_name
          /\ created_datasets' = o.state.created_datasets
          /\ dataset_objects' = o.state.objects
          /\ dataset_grasps' = o.state.grasps
          /\ dataset_grasp_metrics' = o.state.grasp_metrics
    /\ events' = Append(events, Event(op, Head(script).object_name, Len(script), FALSE))
    /\ UNCHANGED <<inputs, dataset_metrics, grasps, stable_poses, metric_dict, metric_names,
                   metric_configs, zi, ind, k, grasp_metrics, progress, flushed, todo,
                   variants, nvariant, calls, last, memo, passes>>

\* lines 164-170: a database that was opened is closed, its temporary directory removed
CloseOld(S) ==
    IF S.database = None THEN Outcome("None", S)
    ELSE IF S._database_temp_cache_dir = NoDir THEN Outcome("None", close(S))
    ELSE IF S._database_temp_cache_dir \notin S.temp_dirs.present THEN Outcome("OSError", S)
    ELSE Outcome("None", close([rmtree(S, S._database_temp_cache_dir)
                                  EXCEPT !._database_temp_cache_dir = NoDir]))

\* lines 139-193
open_database_outcomes(r, S) ==
    LET old == CloseOld(S)
        S1 == old.state
        S2 == WithCache(S1, r.cache_dir)
    IN IF old.exc # "None" THEN {old}
       ELSE IF ~HasHdf5Ext(r.path) THEN {Outcome("ValueError", S1)}
       ELSE IF r.path # DatabaseFile /\ ~r.overwrite THEN {Outcome("ValueError", S1)}
       ELSE {Outcome("None",
                [S2 EXCEPT !.database = "open",
                           !._database_temp_cache_dir =
                               IF r.cache_dir = None THEN S2.temp_dirs.made ELSE @])}

\* (a database file that exists, or no file is created)
open_database ==
    /\ script # <<>>
    /\ Head(script).path = DatabaseFile \/ ~HasHdf5Ext(Head(script).path)
           \/ ~Head(script).overwrite
    /\ Operation("open_database", open_database_outcomes(Head(script), Here))

\* the characters of the names a client gives
Chars(name) ==
    CASE name = "ds" -> <<"d", "s">>
      [] name = "new" -> <<"n", "e", "w">>
      [] name = "a b" -> <<"a", " ", "b">>
      [] name = "ds " -> <<"d", "s", " ">>
      [] OTHER -> <<"n", "o", "d", "s">>

\* str.split(): the maximal runs of characters that are not whitespace
split(chars) ==
    LET starts == {i \in DOMAIN chars : chars[i] # " " /\ (i = 1 \/ chars[i - 1] = " ")}
        EndOf(i) == CHOOSE j \in i..Len(chars) :
                        /\ \A h \in i..j : chars[h] # " "
                        /\ j = Len(chars) \/ chars[j + 1] = " "
        Nth(n) == CHOOSE i \in starts : Cardinality({h \in starts : h < i}) = n - 1
    IN [n \in 1..Cardinality(starts) |-> SubSeq(chars, Nth(n), EndOf(Nth(n)))]

\* lines 222-224: more than one token
IsInvalidName(name) == Len(split(Chars(name))) > 1

\* self.database.has_dataset(dataset_name)
has_dataset(S, name) == name = DatasetName \/ name \in DOMAIN S.created_datasets

\* lines 217-244; a dataset that is created is empty but for the metrics registered
open_dataset_outcomes(r, S) ==
    IF S.database = None THEN {Outcome("RuntimeError", S)}
    ELSE IF IsInvalidName(r.path) THEN {Outcome("ValueError", S)}
    ELSE IF S.database = "closed" THEN {Outcome(e, S) : e \in ClosedHandleErrors}
    ELSE IF ~has_dataset(S, r.path)
         THEN IF r.overwrite
              THEN {Outcome("None", [S EXCEPT !.dataset = "open",
                                              !.dataset_name = r.path,
                                              !.created_datasets = @ @@ (r.path :> ms)]) :
                       ms \in Orders(DOMAIN S.metrics)}
              ELSE {Outcome("ValueError", S)}
    ELSE {Outcome("None", [S EXCEPT !.dataset = "open", !.dataset_name = r.path])}

open_dataset ==
    /\ script # <<>>
    /\ Operation("open_dataset", open_dataset_outcomes(Head(script), Here))

\* lines 1182-1188
close_database_outcomes(S) ==
    LET S1 == IF S.database # None THEN close(S) ELSE S
    IN IF S._database_temp_cache_dir = NoDir THEN {Outcome("None", S1)}
       ELSE IF S._database_temp_cache_dir \notin S.temp_dirs.present
            THEN {Outcome("OSError", S1)}
       ELSE {Outcome("None", rmtree(S1, S._database_temp_cache_dir))}

close_database ==
    /\ script # <<>>
    /\ Operation("close_database", close_database_outcomes(Here))

\* the operation is left at its first statement, or at its first read of a closed dataset
Unopened(S) ==
    IF _check_opens # "None" THEN {Outcome(_check_opens, S)}
    ELSE IF S.dataset = "closed" THEN {Outcome(e, S) : e \in ClosedHandleErrors}
    ELSE {}

\* a mesh file: the name of its directory, its name without extension, its extension
File(dir, root, ext) == [dir |-> dir, root |-> root, ext |-> ext]

\* config['default_mass']
DefaultMass == 1

\* a slip: use_default_mass is not looked at
UsesDefaultMassOnlyIfNone(mass, use_default_mass) == mass = NoNumber

\* line 361
UsesDefaultMass(mass, use_default_mass) == mass = NoNumber \/ use_default_mass

\* lines 354-356: name, or the file's name without directory and extension
KeyOf(r) == IF r.object_name # None THEN r.object_name ELSE r.files[1].root

\* lines 350-382; mesh_processor.generate_graspable may fail
add_object_outcomes(r, S) ==
    IF Unopened(S) # {} THEN Unopened(S)
    ELSE IF KeyOf(r) \in DOMAIN S.objects THEN {Outcome("RuntimeError", S)}
    ELSE LET mass == IF UsesDefaultMass(r.mass, r.use_default_mass) THEN DefaultMass
                     ELSE r.mass
             S1 == WithCache(S, r.cache_dir)
             S2 == [S1 EXCEPT
                      !.objects = @ @@ (KeyOf(r) :> Graspable(mass, <<PoseA>>)),
                      !.object_data = @ @@ (KeyOf(r) :> {}),
                      !.grasps = @ @@ [p \in {KeyOf(r)} \X list_grippers |-> <<>>]]
         IN {Outcome("Exception", S1), Outcome("None", WithoutCache(S2, r.cache_dir))}

add_object ==
    /\ script # <<>>
    /\ Operation("add_object", add_object_outcomes(Head(script), Here))

\* SUPPORTED_MESH_FORMATS of dexnet.constants
SupportedMeshFormats == {".obj", ".stl"}

\* lines 307-311: the mesh files of a directory, or the path itself
obj_filenames(r) ==
    IF r.isdir THEN SelectSeq(r.files, LAMBDA f : f.ext \in SupportedMeshFormats)
    ELSE <<r.files[1]>>

\* lines 307-312: the files to add; add_objects itself checks nothing
add_objects ==
    /\ Called("add_objects")
    /\ todo' = [i \in DOMAIN obj_filenames(Head(script)) |->
                    <<obj_filenames(Head(script))[i].root, None, None>>]
    /\ pc' = "tuple"
    /\ exc' = "None"
    /\ events' = Append(events, Event("add_objects", None, Len(script), FALSE))
    /\ UNCHANGED <<inputs, dataset_grasp_metrics, dataset_metrics, grasps, stable_poses,
                   metric_dict, metric_names, metric_configs, zi, ind, k, grasp_metrics,
                   progress, database, dataset, housekeeping, dataset_objects, dataset_grasps,
                   flushed, variants, nvariant, calls, last, memo, passes>>

\* lines 312-317: add_object for the next file; an exception is caught and printed
AddNextFile ==
    /\ pc = "tuple"
    /\ request.op = "add_objects"
    /\ todo # <<>>
    /\ LET r == [request EXCEPT !.op = "add_object", !.object_name = None,
                                !.files = <<File(None, Head(todo)[1], None)>>,
                                !.mass = NoNumber]
       IN \E o \in add_object_outcomes(r, Here) :
             /\ UNCHANGED <<pc, exc>>
             /\ database' = o.state.database
             /\ dataset' = o.state.dataset
             /\ temp_dirs' = o.state.temp_dirs
             /\ _database_temp_cache_dir' = o.state._database_temp_cache_dir
             /\ output_dirs' = o.state.output_dirs
             /\ dataset_object_data' = o.state.object_data
             /\ dataset_name' = o.state.dataset_name
             /\ created_datasets' = o.state.created_datasets
             /\ dataset_objects' = o.state.objects
             /\ dataset_grasps' = o.state.grasps
             /\ dataset_grasp_metrics' = o.state.grasp_metrics
             /\ events' = Append(events, Event("add_object", Head(todo)[1], Len(todo),
                                               o.exc # "None"))
    /\ todo' = Tail(todo)
    /\ UNCHANGED <<inputs, dataset_metrics, grasps, stable_poses, metric_dict, metric_names,
                   metric_configs, zi, ind, k, grasp_metrics, progress, flushed, script,
                   request, before, variants, nvariant, calls, last, memo, passes>>

\* lines 723-747
compute_simulation_data_outcomes(r, S) ==
    IF _check_opens # "None" THEN {Outcome(_check_opens, S)}
    ELSE LET S1 == WithCache(S, r.cache_dir)
         IN IF S.dataset = "closed" THEN {Outcome(e, S1) : e \in ClosedHandleErrors}
            ELSE IF r.object_name \notin DOMAIN S.objects
                 THEN {Outcome(e, S1) : e \in MissingObjectErrors}
            ELSE {Outcome("Exception", S1),
                  Outcome("None",
                      WithoutCache([S1 EXCEPT !.object_data[r.object_name] =
                                                  @ \cup {"convex_pieces"}], r.cache_dir))}

compute_simulation_data ==
    /\ script # <<>>
    /\ Operation("compute_simulation_data", compute_simulation_data_outcomes(Head(script), Here))

\* lines 765-780
compute_metadata_outcomes(r, S) ==
    IF Unopened(S) # {} THEN Unopened(S)
    ELSE IF r.object_name \notin DOMAIN S.objects
         THEN {Outcome(e, S) : e \in MissingObjectErrors}
    ELSE LET S1 == [S EXCEPT !.object_data[r.object_name] = @ \cup {"metadata"}]
         IN IF ~r.overwrite /\ "connected_components" \in S.object_data[r.object_name]
            THEN {Outcome("RuntimeError", S1)}
            ELSE {Outcome("None", [S1 EXCEPT !.object_data[r.object_name] =
                                                 @ \cup {"connected_components"}])}

compute_metadata ==
    /\ script # <<>>
    /\ Operation("compute_metadata", compute_metadata_outcomes(Head(script), Here))

\* lines 794-797
get_metadata_outcomes(r, S) ==
    IF Unopened(S) # {} THEN Unopened(S)
    ELSE IF r.object_name \notin DOMAIN S.objects
         THEN {Outcome(e, S) : e \in MissingObjectErrors}
    ELSE {Outcome("None", S)}

get_metadata ==
    /\ script # <<>>
    /\ Operation("get_metadata", get_metadata_outcomes(Head(script), Here))

\* lines 832-859, with no filter and every object exported
export_objects_outcomes(r, S) ==
    IF _check_opens # "None" THEN {Outcome(_check_opens, S)}
    ELSE LET S1 == [S EXCEPT !.output_dirs =
                        IF r.path \in DOMAIN @ THEN @ ELSE @ @@ (r.path :> {})]
         IN IF S.dataset = "closed" THEN {Outcome(e, S1) : e \in ClosedHandleErrors}
            ELSE {Outcome("None", [S1 EXCEPT !.output_dirs[r.path] = @ \cup DOMAIN S.objects])}

export_objects ==
    /\ script # <<>>
    /\ Operation("export_objects", export_objects_outcomes(Head(script), Here))

\* lines 1002-1006 and 1039-1043: the figure is not part of the state
display_outcomes(r, S) ==
    IF Unopened(S) # {} THEN Unopened(S)
    ELSE IF r.object_name \notin DOMAIN S.objects THEN {Outcome("ValueError", S)}
    ELSE {Outcome("None", S)}

display_object ==
    /\ script # <<>>
    /\ Operation("display_object", display_outcomes(Head(script), Here))

display_stable_poses ==
    /\ script # <<>>
    /\ Operation("display_stable_poses", display_outcomes(Head(script), Here))

\* lines 1175-1180
delete_object_outcomes(r, S) ==
    IF Unopened(S) # {} THEN Unopened(S)
    ELSE IF r.object_name \notin DOMAIN S.objects THEN {Outcome("ValueError", S)}
    ELSE LET kept == DOMAIN S.objects \ {r.object_name}
             pairs == {p \in DOMAIN S.grasps : p[1] # r.object_name}
             ids == UNION {Range([i \in DOMAIN S.grasps[p] |-> S.grasps[p][i].id]) :
                              p \in pairs}
         IN {Outcome("None",
                [S EXCEPT !.objects = [o \in kept |-> @[o]],
                          !.object_data = [o \in kept |-> @[o]],
                          !.grasps = [p \in pairs |-> @[p]],
                          !.grasp_metrics = [id \in DOMAIN @ \cap ids |-> @[id]]])}

delete_object ==
    /\ script # <<>>
    /\ Operation("delete_object", delete_object_outcomes(Head(script), Here))

\* the client handles the exception and makes its next call
Catch ==
    /\ pc = "raised"
    /\ script # <<>>
    /\ pc' = "idle"
    /\ UNCHANGED <<inputs, dataset_grasp_metrics, dataset_metrics, grasps, stable_poses,
                   metric_dict, metric_names, metric_configs, zi, ind, k, grasp_metrics,
                   progress, instance, exc, variants, nvariant, calls, last, memo, passes,
                   events>>

\* the operations documented as raising RuntimeError for 'Database or dataset not opened'
CheckedOperations ==
    {"add_object", "sample_grasps", "compute_metrics", "compute_simulation_data",
     "compute_metadata", "get_metadata", "export_objects", "display_object",
     "display_stable_poses", "delete_object"}

\* what the client does before the operation: nothing, open_database, open_database and
\* open_dataset, and then close_database or another open_database
Preludes ==
    LET opened == {<<SessionCall("open_database", None, DatabaseFile, TRUE, c)>> :
                      c \in {None, "cache"}}
        both == {p \o <<SessionCall("open_dataset", None, n, FALSE, None)>> :
                    p \in opened, n \in {DatasetName, "a b", "nods"}}
        complete == {p \in both : p[2].path = DatasetName}
    IN {<<>>} \cup opened \cup both
          \cup {p \o <<SessionCall("close_database", None, None, FALSE, None)>> : p \in complete}
          \cup {p \o <<SessionCall("open_database", None, path, FALSE, "cache")>> :
                   p \in complete, path \in {DatabaseFile, "db.txt", "missing.hdf5"}}

\* the operation, with names that exist and names that do not
Operations ==
    {SessionCall("add_object", o, None, FALSE, c) : o \in {"o1", "o2"}, c \in {None, "cache"}}
    \cup {Call("sample_grasps", None, "o1", "cup", TRUE),
          Call("compute_metrics", "m", "o1", "cup", TRUE)}
    \cup {SessionCall("compute_simulation_data", "o1", None, FALSE, c) : c \in {None, "cache"}}
    \cup {SessionCall("compute_metadata", "o1", None, ow, None) : ow \in BOOLEAN}
    \cup {SessionCall("get_metadata", "o1", None, FALSE, None),
          SessionCall("export_objects", None, "out", FALSE, None)}
    \cup {SessionCall(op, o, None, FALSE, None) :
             op \in {"display_object", "display_stable_poses", "delete_object"},
             o \in {"o1", "ghost"}}
    \cup {SessionCall("open_database", None, path, create_db, c) :
             path \in {DatabaseFile, "db.txt", "missing.hdf5"}, create_db \in BOOLEAN,
             c \in {None, "cache"}}
    \cup {SessionCall("open_dataset", None, n, FALSE, None) :
             n \in {DatasetName, "a b", "ds ", "nods"}}
    \cup {SessionCall("open_dataset", None, n, TRUE, None) : n \in {"new", "a b", "ds "}}
    \cup {SessionCall("close_database", None, None, FALSE, None)}

\* a new DexNet instance, a database file with one dataset of one object, a client that
\* opens and closes and then calls one operation
SessionInputs ==
    [databases |-> {None},
     datasets |-> {None},
     objects |-> {("o1" :> Graspable(1, <<PoseA>>))},
     maxgrasps |-> MaxPairGrasps,
     xs |-> {<<0, 0, -1>>},
     stored |-> {<<>>},
     registered |-> {{}},
     maxposes |-> {MaxCfgStablePoses},
     metricdicts |-> {("m" :> Metric("force_closure", 30)),
                      ("m" :> Metric("force_closure", 30))
                          @@ ("w" :> Metric("force_closure", 90))},
     deletes |-> {FALSE},
     rates |-> {1},
     scripts |-> {p \o <<c>> : p \in Preludes,
                                c \in {c \in Operations : c.op = "open_database" =>
                                          (c.path # "missing.hdf5" \/ ~c.overwrite)}},
     memo |-> NoMemo]

InitSession == InitApi(SessionInputs)

NextSession ==
    \/ open_database
    \/ open_dataset
    \/ close_database
    \/ add_object
    \/ sample_grasps
    \/ compute_metrics
    \/ compute_simulation_data
    \/ compute_metadata
    \/ get_metadata
    \/ export_objects
    \/ display_object
    \/ display_stable_poses
    \/ delete_object
    \/ Catch
    \/ SamplePair
    \/ BeginPass
    \/ LoadStablePoses
    \/ SetupMetrics
    \/ BeginMetric
    \/ BeginVariant
    \/ GraspStep
    \/ EndVariant
    \/ EndMetric
    \/ StoreGraspMetrics
    \/ Flush
    \/ Return

SpecSession == InitSession /\ [][NextSession]_vars

\* add_object and add_objects called once on an open dataset of one or two objects
ObjectsInputs ==
    [databases |-> {"open"},
     datasets |-> {"open"},
     objects |-> {("o1" :> Graspable(2, <<PoseA>>)),
                  ("o1" :> Graspable(2, <<PoseA>>)) @@ ("o2" :> Graspable(2, <<PoseA>>))},
     maxgrasps |-> MaxPairGrasps,
     xs |-> {<<0, 0, -1>>},
     stored |-> {<<>>},
     registered |-> {{"m"}},
     maxposes |-> {MaxCfgStablePoses},
     metricdicts |-> {("m" :> Metric("force_closure", 30))},
     deletes |-> {FALSE},
     rates |-> {1},
     scripts |->
        {<<[SessionCall("add_object", name, None, FALSE, c)
               EXCEPT !.files = <<File("meshes", root, ".obj")>>, !.mass = mass,
                      !.use_default_mass = u]>> :
            name \in {None, "o1", "o3"}, root \in {"o1", "o2"}, mass \in {NoNumber, MaxMass},
            u \in BOOLEAN, c \in {None, "cache"}}
        \cup {<<[SessionCall("add_objects", None, "meshes", FALSE, c)
                    EXCEPT !.files = fs, !.isdir = d]>> :
                 fs \in {<<File("meshes", "o1", ".obj"), File("meshes", "o3", ".obj")>>,
                         <<File("meshes", "o3", ".obj"), File("meshes", "notes", ".txt"),
                           File("meshes", "o2", ".stl"), File("meshes", "o4", ".obj")>>},
                 d \in BOOLEAN, c \in {None, "cache"}},
     memo |-> NoMemo]

InitObjects == InitApi(ObjectsInputs)

NextObjects ==
    \/ add_object
    \/ add_objects
    \/ AddNextFile
    \/ Return

SpecObjects == InitObjects /\ [][NextObjects]_vars

(***************************************************************************)
(* Properties.                                                              *)
(***************************************************************************)
\* the quality methods the claims call gravity-dependent
GravityMethods == {"partial_closure", "wrench_resistance", "suction_wrench_resistance"}

\* the grasp iteration just made was for a gravity-dependent variant
LastIsGravity == last.kind # "none" /\ last.config.quality_method \in GravityMethods

LastKey == <<last.nvariant, last.grasp.id>>

\* C1: in a gravity-dependent variant, a grasp/pose pair for which the feasibility
\* predicate is false gets the value 0 recorded under (grasp id, variant name), and the
\* quality function is not invoked for that pair.
C1_InfeasibleRecordsZeroWithoutCall ==
    (LastIsGravity /\ ~last.perpendicular_table) =>
        /\ last.grasp.id \in DOMAIN grasp_metrics
        /\ last.name \in DOMAIN grasp_metrics[last.grasp.id]
        /\ grasp_metrics[last.grasp.id][last.name] = 0
        /\ CallCount(LastKey) = 0

\* an infeasible pair was met where only the side of approach is wrong
C1_Witness ==
    /\ LastIsGravity
    /\ ~last.perpendicular_table
    /\ Abs(last.angle) < Deg2Rad(last.config.max_approach_table_angle)
    /\ grasp_metrics[last.grasp.id][last.name] = 0
    /\ CallCount(LastKey) = 0

\* the feasibility predicate as the claim states it, on what the iteration read
LastFeasible ==
    /\ Abs(last.angle) < Deg2Rad(last.config.max_approach_table_angle)
    /\ Dot(last.pose.r[3], last.aligned_grasp.x_axis) < 0

\* C2: in a gravity-dependent variant the quality function is invoked for a grasp exactly
\* when |approach-table angle| < max_approach_table_angle (in radians) and the dot product
\* of the pose's table normal with the grasp's x axis is < 0; it is then invoked once for
\* that grasp and variant, and the value recorded is the quality it returned.
C2_InvokedExactlyWhenFeasible ==
    /\ \A key \in DOMAIN calls : calls[key] = 1
    /\ LastIsGravity =>
          /\ CallCount(LastKey) = (IF LastFeasible THEN 1 ELSE 0)
          /\ last.invoked <=> LastFeasible
          /\ LastFeasible =>
                /\ last.arg = last.aligned_grasp
                /\ grasp_metrics[last.grasp.id][last.name] = last.quality

\* a feasible pair at a negative angle, evaluated once, with a non-zero quality recorded
C2_Witness ==
    /\ LastIsGravity
    /\ LastFeasible
    /\ last.angle < 0
    /\ CallCount(LastKey) = 1
    /\ last.quality # 0
    /\ grasp_metrics[last.grasp.id][last.name] = last.quality

\* the metrics whose expansion has been made in this pass
Expanded == IF pc \in {"load", "setup", "raised"} THEN {} ELSE SelectedMetrics \ metric_dict

\* the positions in variants of the variants of metric M, and the first of them
VariantsOf(M) == {i \in DOMAIN variants : variants[i].metric = M}

FirstOf(M) == CHOOSE i \in VariantsOf(M) : \A j \in VariantsOf(M) : i <= j

IsGravityVariant(i) == variants[i].spec.quality_method \in GravityMethods

\* the stable pose a gravity variant was expanded for
PoseOfVariant(i) == stable_poses[i - FirstOf(variants[i].metric) + 1]

\* C3: a metric whose quality_method is partial_closure, wrench_resistance or
\* suction_wrench_resistance expands, over k retained stable poses, to exactly k variants,
\* the i-th named <metric>_<pose_i.id> with a copy of the configuration whose target_wrench
\* is the gravity wrench of pose i; any other metric expands to exactly one variant with
\* the original name and the unmodified configuration.
C3_MetricExpansion ==
    \A M \in Expanded :
        LET spec == config.metrics[M]
            idx == VariantsOf(M)
        IN IF spec.quality_method \in GravityMethods
           THEN /\ Cardinality(idx) = Len(stable_poses)
                /\ \A j \in DOMAIN stable_poses :
                      LET v == variants[FirstOf(M) + j - 1]
                      IN /\ v.metric = M
                         /\ v.name = M \o "_" \o stable_poses[j].id
                         /\ v.config = [create_config(spec) EXCEPT
                                           !.target_wrench = _gravity_wrench(obj, stable_poses[j])]
           ELSE /\ Cardinality(idx) = 1
                /\ \A i \in idx : /\ variants[i].name = M
                                  /\ variants[i].config = create_config(spec)

\* one pass expanded a suction_wrench_resistance metric over two poses and another metric
\* to a single variant
C3_Witness ==
    \E M1, M2 \in Expanded :
        /\ config.metrics[M1].quality_method = "suction_wrench_resistance"
        /\ Cardinality(VariantsOf(M1)) = 2
        /\ config.metrics[M2].quality_method \notin GravityMethods
        /\ Cardinality(VariantsOf(M2)) = 1

\* C4, as claimed: the variants of a gravity-dependent metric have pairwise distinct
\* target_wrench values, for any mass >= 0 and any pose orientations.
C4_DistinctTargetWrenches ==
    \A i, j \in DOMAIN variants :
        (i # j /\ variants[i].metric = variants[j].metric /\ IsGravityVariant(i)) =>
            variants[i].config.target_wrench # variants[j].config.target_wrench

\* C4, amended: for an object of mass > 0, the variants of a gravity-dependent metric for
\* two poses with different table normals (row 2 of r) have different target_wrench values.
C4_DistinctForPositiveMassAndDistinctNormals ==
    \A i, j \in DOMAIN variants :
        (/\ i # j
         /\ variants[i].metric = variants[j].metric
         /\ IsGravityVariant(i)
         /\ obj.mass > 0
         /\ PoseOfVariant(i).r[3] # PoseOfVariant(j).r[3]) =>
            variants[i].config.target_wrench # variants[j].config.target_wrench

\* two variants of one gravity metric for poses of different normals, mass > 0
C4_Witness ==
    \E i, j \in DOMAIN variants :
        /\ i # j
        /\ variants[i].metric = variants[j].metric
        /\ IsGravityVariant(i)
        /\ obj.mass > 0
        /\ PoseOfVariant(i).r[3] # PoseOfVariant(j).r[3]
        /\ variants[i].config.target_wrench # variants[j].config.target_wrench

\* C5: within one pass no two metric variants have the same name, so no value recorded
\* for one variant of a grasp is replaced by the value of another variant.
C5_UniqueVariantNames ==
    /\ \A i, j \in DOMAIN variants : i # j => variants[i].name # variants[j].name
    /\ last.kind # "none" => ~last.replaced

ForceOf(i) == SubSeq(variants[i].config.target_wrench, 1, 3)

SamplerInput == LoadedStablePoses

SamplerMax == config.max_stable_poses

\* C6: from a list of more than max_stable_poses poses the sampler retains exactly
\* max_stable_poses poses, all members of the list and none twice; and it never retains
\* more than max_stable_poses poses.
C6_SamplerBound ==
    pc \notin {"load", "raised"} =>
        /\ Len(stable_poses) <= SamplerMax
        /\ Len(SamplerInput) > SamplerMax =>
              /\ Len(stable_poses) = SamplerMax
              /\ \A i \in DOMAIN stable_poses : stable_poses[i] \in Range(SamplerInput)
              /\ \A i, j \in DOMAIN stable_poses : i # j => stable_poses[i] # stable_poses[j]

\* two poses were drawn from three
C6_Witness ==
    /\ pc = "setup"
    /\ Len(SamplerInput) = 3
    /\ SamplerMax = 2
    /\ Len(stable_poses) = 2

\* C7: when the number of poses is <= max_stable_poses the retained poses are exactly the
\* input poses: nothing dropped, nothing added.
C7_SamplerIdentity ==
    (pc # "load" /\ Len(SamplerInput) <= SamplerMax) =>
        /\ pc # "raised"
        /\ Len(stable_poses) = Len(SamplerInput)
        /\ Range(stable_poses) = Range(SamplerInput)

\* a list of exactly max_stable_poses poses, one of probability 0, was kept whole
C7_Witness ==
    /\ pc = "setup"
    /\ Len(SamplerInput) = 2
    /\ SamplerMax = 2
    /\ \E i \in DOMAIN SamplerInput : SamplerInput[i].p = 0
    /\ stable_poses = SamplerInput

\* C8: when subsampling applies, a pose of probability 0 is never retained, and the draw
\* completes without error for every pose list, also when fewer than max_stable_poses
\* poses have a non-zero probability.  (Stated for the lists in which some pose has a
\* non-zero probability, so that the renormalised probabilities are numbers.)
C8_DrawCompletes ==
    (\E i \in DOMAIN SamplerInput : SamplerInput[i].p > 0) =>
        /\ pc # "raised"
        /\ (pc # "load" /\ Len(SamplerInput) > SamplerMax) =>
              \A i \in DOMAIN stable_poses : stable_poses[i].p > 0

(***************************************************************************)
(* The overwrite flag and the stored values.                                *)
(***************************************************************************)
\* the last grasp iteration was on a metric that does not depend on gravity
LastIsRegular == last.kind # "none" /\ last.config.quality_method \notin GravityMethods

\* store_grasp_metrics has not run yet: dataset_grasp_metrics still holds what
\* existing_metrics (line 570) was read from
BeforeStore == pc # "done"

\* the dataset held a value under the last iteration's (grasp, metric) when it ran
LastWasStored == last.name \in DOMAIN dataset_grasp_metrics[last.grasp.id]

\* C11: after a grasp iteration of a non-gravity metric: if a value of the metric was
\* stored for the grasp and overwrite is False, quality_fn was not called for the
\* grasp, grasp_metrics holds no value for (grasp, metric), and the loop is at the
\* next grasp; in every other case quality_fn was called once and the value it
\* returned is recorded.
C11_SkipPolicy ==
    (BeforeStore /\ LastIsRegular) =>
        /\ IF LastWasStored /\ ~args.overwrite
           THEN /\ CallCount(LastKey) = 0
                /\ ~Recorded(last.grasp.id, last.name)
           ELSE /\ CallCount(LastKey) = 1
                /\ Recorded(last.grasp.id, last.name)
                /\ grasp_metrics[last.grasp.id][last.name] = last.quality
        /\ (pc = "grasp" /\ nvariant = last.nvariant) => grasps[k - 1] = last.grasp

\* the first of two grasps was skipped and the loop is at the second
C11_Witness ==
    /\ LastIsRegular
    /\ LastWasStored
    /\ ~args.overwrite
    /\ pc = "grasp"
    /\ k = 2
    /\ Len(grasps) = 2
    /\ CallCount(LastKey) = 0

\* the values held in store a are all held, unchanged, in store b
KeptIn(a, b) ==
    \A g \in DOMAIN a : \A n \in DOMAIN a[g] :
        g \in DOMAIN b /\ n \in DOMAIN b[g] /\ b[g][n] = a[g][n]

\* C12: when the pass of a metric run with overwrite=False (and without
\* delete_previous_metrics) has stored its record, every value that was stored for a grasp before the call,
\* under any metric or pose-variant name, is still stored with the same value.
C12_ExistingValuesKept ==
    (pc = "done" /\ args.metric_name # None /\ ~args.overwrite
        /\ ~config.delete_previous_metrics) =>
        KeptIn(before.grasp_metrics, dataset_grasp_metrics)

(***************************************************************************)
(* The calls on the store.                                                  *)
(***************************************************************************)
\* the positions in events of the calls named e
EventsOf(e) == {i \in DOMAIN events : events[i].e = e}

\* C13: a pass that has not reached line 618 has made no store_grasp_metrics call;
\* a pass that has completed made exactly one, as its last call, with
\* force_overwrite=True whatever its overwrite argument, after one grasp iteration
\* for every grasp of every variant.
C13_StoreOnceAtEnd ==
    /\ pc # "done" => EventsOf("store_grasp_metrics") = {}
    /\ pc = "done" =>
          /\ EventsOf("store_grasp_metrics") = {Len(events)}
          /\ events[Len(events)].flag = TRUE
          /\ Cardinality(EventsOf("grasp")) = Len(variants) * Len(grasps)
          /\ \A v \in DOMAIN variants : \A g \in DOMAIN grasps :
                \E i \in EventsOf("grasp") :
                    /\ events[i].name = variants[v].name
                    /\ events[i].n = grasps[g].id
                    /\ i < Len(events)

\* a pass over two variants and two grasps, called with overwrite=False, has stored
C13_Witness ==
    /\ pc = "done"
    /\ ~args.overwrite
    /\ Len(variants) = 2
    /\ Len(grasps) = 2
    /\ Cardinality(EventsOf("store_grasp_metrics")) = 1

(***************************************************************************)
(* Errors in the middle of compute_metrics.                                 *)
(***************************************************************************)
\* the stored values when the pass in progress was entered
PassStart == IF passes = <<>> THEN before.grasp_metrics ELSE passes[Len(passes)].stored

\* quality_fn, or create_quality_function, has raised
QualityRaised == exc = "Exception"

\* what holds once the quality function has raised: the operation is over, the pass
\* made no store_grasp_metrics call, and the store holds no value that it did not
\* hold when the pass was entered
AbortedPass ==
    /\ pc = "raised"
    /\ Cardinality(EventsOf("store_grasp_metrics")) = Len(passes)
    /\ Cardinality(EventsOf("_compute_metrics")) = Len(passes) + 1
    /\ KeptIn(dataset_grasp_metrics, PassStart)

\* C14: when quality_fn or its construction raises, the exception leaves
\* compute_metrics: the pass in progress never calls store_grasp_metrics, none of
\* the values it accumulated is in the store, and nothing is done afterwards (no
\* later grasp, variant or (object, gripper, metric) is taken up).
C14_QualityErrorPropagates ==
    /\ [](QualityRaised => AbortedPass)
    /\ [][~QualityRaised]_vars

\* quality_fn raised in the second pass of a run, after the pass had recorded a value,
\* with an (object, gripper, metric) still to come
C14_Witness ==
    /\ QualityRaised
    /\ Len(passes) >= 1
    /\ todo # <<>>
    /\ \E g \in DOMAIN grasp_metrics : grasp_metrics[g] # <<>>

\* the calls of kind e made before position i of events
CountBefore(e, i) == Cardinality({j \in EventsOf(e) : j < i})

\* C15: in compute_metrics every pass that has stored its record is flushed before
\* anything else is done: a flush directly follows each store_grasp_metrics call and
\* directly precedes each later pass, once per pass; so whenever the loop is between
\* passes the disk holds the store's contents, and when the run is aborted in a pass
\* the disk holds the records of all the passes before it.
C15_FlushAfterEachPass ==
    request.op = "compute_metrics" =>
        /\ \A f \in EventsOf("flush") :
              /\ f > 1
              /\ events[f - 1].e = "store_grasp_metrics"
              /\ CountBefore("flush", f) + 1 = CountBefore("_compute_metrics", f)
        /\ \A q \in EventsOf("_compute_metrics") :
              CountBefore("_compute_metrics", q) > 0 => events[q - 1].e = "flush"
        /\ \A q \in EventsOf("store_grasp_metrics") :
              pc # "done" \/ q < Len(events) => events[q + 1].e = "flush"
        /\ pc \in {"tuple", "idle"} =>
              /\ Cardinality(EventsOf("flush")) = Cardinality(EventsOf("_compute_metrics"))
              /\ flushed = Contents
        /\ pc = "raised" =>
              /\ Cardinality(EventsOf("flush")) = Len(passes)
              /\ flushed.grasp_metrics = PassStart

\* the run was aborted in its third pass: the records of the first two are on disk
C15_Witness ==
    /\ request.op = "compute_metrics"
    /\ pc = "raised"
    /\ Len(passes) = 2
    /\ Cardinality(EventsOf("flush")) = 2
    /\ \E g \in DOMAIN flushed.grasp_metrics : flushed.grasp_metrics[g] # <<>>
    /\ flushed.grasp_metrics = passes[2].stored

\* a _compute_metrics pass is in progress
InPass == pc \in {"load", "setup", "metric", "variant", "grasp", "done"}

\* the (object, gripper) pairs of the passes that were entered
PairsEntered ==
    {<<passes[i].obj.key, passes[i].gripper.name>> : i \in DOMAIN passes}
        \cup (IF InPass THEN {<<obj.key, gripper.name>>} ELSE {})

\* the dataset holds a grasp for the pair p
Sampled(p) == p \in DOMAIN dataset_grasps /\ dataset_grasps[p] # <<>>

\* RuntimeWarning has been raised
NoGraspsRaised == exc = "RuntimeWarning"

\* what holds once RuntimeWarning is raised: it is the last thing done, for a pair
\* without grasps; every pass entered before has stored and flushed, and the store is
\* as the last of them left it
HaltedAtMissingGrasps ==
    /\ pc = "raised"
    /\ events[Len(events)].e = "RuntimeWarning"
    /\ ~Sampled(<<events[Len(events)].name, GripperNames[events[Len(events)].n]>>)
    /\ Cardinality(EventsOf("_compute_metrics")) = Len(passes)
    /\ Cardinality(EventsOf("flush")) = Len(passes)
    /\ dataset_grasp_metrics = PassStart

\* C16: compute_metrics enters a pass only for a pair that has grasps; on reaching a
\* pair without grasps it raises RuntimeWarning before anything is computed for the
\* pair, and nothing is done afterwards: the (object, gripper, metric) combinations
\* still to come are not processed, whether their pairs have grasps or not.
C16_MissingGraspsHaltsRun ==
    /\ [](request.op = "compute_metrics" =>
             \A p \in PairsEntered : Sampled(p))
    /\ [](NoGraspsRaised => HaltedAtMissingGrasps)
    /\ [][~NoGraspsRaised]_vars

\* RuntimeWarning after a completed pass, with a pair that has grasps still to come
C16_Witness ==
    /\ NoGraspsRaised
    /\ Len(passes) >= 1
    /\ \E i \in DOMAIN todo : Sampled(<<todo[i][1], todo[i][2]>>)

(***************************************************************************)
(* Errors at the entry of compute_metrics.                                  *)
(***************************************************************************)
\* the request names a metric, an object or a gripper that does not exist
UnknownName(r) ==
    \/ r.metric_name # None /\ r.metric_name \notin DOMAIN config.metrics
    \/ r.object_name # None /\ r.object_name \notin DOMAIN dataset_objects
    \/ r.gripper_name # None /\ r.gripper_name \notin list_grippers

\* the operation was left at its entry and the dataset is as it was
NothingDone ==
    /\ pc = "raised"
    /\ passes = <<>>
    /\ EventsOf("_compute_metrics") = {}
    /\ State = before
    /\ flushed = Contents

\* C17: compute_metrics called with a metric_name, object_name or gripper_name that is
\* not a known metric, object or gripper raises ValueError, before any metric is
\* deleted, registered, computed, stored or flushed.
C17_UnknownNameRaisesValueError ==
    (request.op = "compute_metrics" /\ UnknownName(request)) =>
        /\ exc = "ValueError"
        /\ NothingDone

(***************************************************************************)
(* Running a pass again.                                                    *)
(***************************************************************************)
\* passes i and j ran for the same object, gripper and arguments and retained the
\* same stable poses
SameRun(i, j) ==
    /\ passes[i].obj = passes[j].obj
    /\ passes[i].gripper = passes[j].gripper
    /\ passes[i].args = passes[j].args
    /\ passes[i].stable_poses = passes[j].stable_poses

\* C18: when the pass of an (object, gripper, metric) is run twice in a row with
\* overwrite=True, deterministic external functions and the same retained stable
\* poses, the stored grasp-metric records after the second run are those after the
\* first.
C18_Idempotent ==
    \A i \in DOMAIN passes :
        (i + 1 \in DOMAIN passes /\ SameRun(i, i + 1) /\ passes[i].args.overwrite) =>
            passes[i + 1].stored = passes[i].stored

\* two runs that drew the same pose out of two and stored a value of quality_fn over a
\* value held before
C18_Witness ==
    /\ Len(passes) = 2
    /\ SameRun(1, 2)
    /\ Len(passes[1].stable_poses) < Len(dataset_stable_poses)
    /\ \E g \in DOMAIN passes[1].stored :
          /\ "m_a" \in DOMAIN passes[1].stored[g]
          /\ passes[1].stored[g]["m_a"] = 7
          /\ passes[2].stored[g]["m_a"] = 7
    /\ \E key \in DOMAIN calls : calls[key] = 1

(***************************************************************************)
(* The overwrite flag of sample_grasps.                                     *)
(***************************************************************************)
\* the pair an entry of the log is about
PairOf(ev) == <<ev.name, GripperNames[ev.n]>>

\* the pairs that had grasps when the operation was called
HadGrasps == {p \in DOMAIN before.grasps : before.grasps[p] # <<>>}

C20_WitnessOverwrite ==
    /\ request.op = "sample_grasps"
    /\ request.overwrite
    /\ last.kind = "sampled"
    /\ last.pair \in HadGrasps
    /\ \E i \in DOMAIN events : events[i].e = "delete_grasps"

(***************************************************************************)
(* Operations on an instance without an open database or dataset.           *)
(***************************************************************************)
\* the last call was one of the checked operations
CheckedCall == request.op \in CheckedOperations

\* the call raised RuntimeError and left everything as it was
RaisedFirst == exc = "RuntimeError" /\ pc = "raised" /\ State = before

\* the part _check_opens does cover: self.database or self.dataset is None
UnsetHandleRaisesFirst ==
    (CheckedCall /\ (before.database = None \/ before.dataset = None)) => RaisedFirst

\* C19: each of the ten operations documented as raising RuntimeError for 'Database or
\* dataset not opened', called while no database is open or no dataset is open, raises
\* RuntimeError before it does anything else and changes no state
C19_NotOpenedRaisesRuntimeErrorFirst ==
    (CheckedCall /\ (before.database # "open" \/ before.dataset # "open")) => RaisedFirst

(***************************************************************************)
(* Errors of open_database.                                                 *)
(***************************************************************************)
\* the last call was open_database with a path that cannot be opened
BadOpenDatabase ==
    /\ request.op = "open_database"
    /\ ~HasHdf5Ext(request.path) \/ (request.path # DatabaseFile /\ ~request.overwrite)

\* the call raised ValueError and no database is open after it
RefusedOpen == exc = "ValueError" /\ database # "open"

\* the temporary directory self._database_temp_cache_dir names was removed already
StaleCacheDir(S) ==
    /\ S.database # None
    /\ S._database_temp_cache_dir # NoDir
    /\ S._database_temp_cache_dir \notin S.temp_dirs

\* the part that holds: unless the temporary directory was removed before the call
BadOpenRefusedUnlessStale == (BadOpenDatabase /\ ~StaleCacheDir(before)) => RefusedOpen

\* C21: open_database raises ValueError when database_path has not the hdf5 extension,
\* and when there is no database at the path and create_db is False; no database is
\* open after either
C21_BadPathRaisesValueError == BadOpenDatabase => RefusedOpen

(***************************************************************************)
(* Errors of open_dataset.                                                  *)
(***************************************************************************)
\* the name has a whitespace character in it
ContainsWhitespace(name) == \E i \in DOMAIN Chars(name) : Chars(name)[i] = " "

\* the dataset does not exist and is not to be created
MissingDataset ==
    /\ request.path # DatasetName
    /\ request.path \notin DOMAIN before.created_datasets
    /\ ~request.overwrite

\* the current dataset is the one it was and no dataset was created
DatasetAsBefore ==
    /\ dataset = before.dataset
    /\ dataset_name = before.dataset_name
    /\ created_datasets = before.created_datasets

\* every metric of the configuration was registered once in the dataset created
RegisteredOnce(name) ==
    \A mn \in DOMAIN config.metrics :
        Cardinality({i \in DOMAIN created_datasets[name] :
                        created_datasets[name][i] = mn}) = 1

\* the part that holds: an open_dataset that raises leaves the dataset and creates none,
\* it raises RuntimeError when self.database is None and ValueError for a name of
\* several tokens or a missing dataset when the database is open, and a dataset it
\* creates has every metric registered once
OpenDatasetErrors ==
    request.op = "open_dataset" =>
        /\ exc # "None" => DatasetAsBefore
        /\ before.database = None => exc = "RuntimeError"
        /\ (before.database = "open" /\ (IsInvalidName(request.path) \/ MissingDataset))
              => exc = "ValueError"
        /\ \A name \in DOMAIN created_datasets : RegisteredOnce(name)

\* C22: open_dataset raises RuntimeError when no database is open, ValueError when the
\* name contains whitespace, ValueError when the dataset does not exist and create_ds is
\* False; an open_dataset that raises leaves the current dataset as it was and creates
\* no dataset; a dataset it creates has every metric of the configuration registered once
C22_OpenDatasetErrors ==
    request.op = "open_dataset" =>
        /\ before.database # "open" => exc = "RuntimeError"
        /\ (before.database = "open" /\ ContainsWhitespace(request.path))
              => exc = "ValueError"
        /\ (before.database = "open" /\ MissingDataset) => exc = "ValueError"
        /\ exc # "None" => DatasetAsBefore
        /\ \A name \in DOMAIN created_datasets : RegisteredOnce(name)

(***************************************************************************)
(* Adding objects.                                                          *)
(***************************************************************************)
\* the calls of add_object that add_objects has made
Attempts == SelectSeq(events, LAMBDA ev : ev.e = "add_object")

C23_WitnessAddObjects ==
    /\ request.op = "add_objects"
    /\ pc = "idle"
    /\ \E i, j \in DOMAIN Attempts : i < j /\ Attempts[i].flag /\ ~Attempts[j].flag

\* add_object refused a key the dataset has
C23_WitnessExists ==
    /\ request.op = "add_object"
    /\ KeyOf(request) \in DOMAIN before.objects
    /\ exc = "RuntimeError"

(***************************************************************************)
(* Re-alignment of the grasp.                                               *)
(***************************************************************************)
\* C24: in a grasp iteration of a gravity variant the grasp checked is a re-aligned one
\* (perpendicular_table) exactly when the gripper's type is 'parallel_jaw'; otherwise it
\* is the original grasp; the feasibility check is made on that grasp and the quality
\* function, when called, is given that grasp.  In an iteration of any other metric the
\* quality function is given the original grasp, whatever the gripper
C24_AlignedOnlyForParallelJaw ==
    /\ last.kind = "gravity" =>
          /\ last.aligned_grasp.aligned <=> gripper.type = "parallel_jaw"
          /\ gripper.type = "parallel_jaw" =>
                last.aligned_grasp \in perpendicular_table(last.grasp, last.pose)
          /\ gripper.type # "parallel_jaw" => last.aligned_grasp = last.grasp
          /\ last.perpendicular_table =
                PerpendicularTable(last.angle, last.config, last.pose.r[3],
                                   last.aligned_grasp.x_axis)
          /\ last.invoked => last.arg = last.aligned_grasp
    /\ last.kind = "regular" =>
          /\ last.invoked
          /\ last.arg = last.grasp
          /\ ~last.arg.aligned

\* a gripper that is not a parallel jaw: a gravity variant was evaluated on the grasp itself
C24_Witness ==
    /\ last.kind = "gravity"
    /\ gripper.type # "parallel_jaw"
    /\ last.invoked
    /\ last.arg = last.grasp

\* a parallel jaw: a gravity variant was evaluated on a grasp with another x axis
C24_WitnessAligned ==
    /\ last.kind = "gravity"
    /\ gripper.type = "parallel_jaw"
    /\ last.invoked
    /\ last.arg.x_axis # last.grasp.x_axis

(***************************************************************************)
(* Registration of the variants.                                            *)
(***************************************************************************)
\* the positions of the log at which create_metric was called for the name
Creations(name) == {i \in DOMAIN events : events[i] = Event("create_metric", name, 0, FALSE)}

\* C25: a grasp of a variant is evaluated only after the variant's name is a metric of
\* the store, registered before the pass or created in it; create_metric is called only
\* for a name that was no metric of the store, at most once for a name; so the metrics of
\* the store are those it had and those created, and after a completed pass every name
\* with a recorded value is a metric of the store
C25_VariantsRegistered ==
    /\ \A i \in DOMAIN events :
          /\ events[i].e = "grasp" =>
                \/ events[i].name \in before.metrics
                \/ \E j \in Creations(events[i].name) : j < i
          /\ events[i].e = "create_metric" =>
                /\ events[i].name \notin before.metrics
                /\ Cardinality(Creations(events[i].name)) = 1
    /\ dataset_metrics =
          before.metrics \cup {events[i].name : i \in {j \in DOMAIN events :
                                                          events[j].e = "create_metric"}}
    /\ pc = "done" =>
          \A id \in DOMAIN grasp_metrics : DOMAIN grasp_metrics[id] \subseteq dataset_metrics

\* a completed pass that created a variant's metric and recorded a value under it
C25_Witness ==
    /\ pc = "done"
    /\ \E i \in DOMAIN events :
          /\ events[i].e = "create_metric"
          /\ \E id \in DOMAIN grasp_metrics : events[i].name \in DOMAIN grasp_metrics[id]

\* a completed pass that recorded a value under a metric registered before and created none
C25_WitnessRegistered ==
    /\ pc = "done"
    /\ \A i \in DOMAIN events : events[i].e # "create_metric"
    /\ \E id \in DOMAIN grasp_metrics : DOMAIN grasp_metrics[id] \cap before.metrics # {}

(***************************************************************************)
(* The passes of one compute_metrics call.                                  *)
(***************************************************************************)
\* compute_metrics has passed its entry checks and built its loops
LoopsEntered == request.op = "compute_metrics" /\ exc \in {"None", "RuntimeWarning"}

\* a pass is between its entry and its store
Computing == pc \in {"load", "setup", "metric", "variant", "grasp"}

\* the (object, gripper, metric) tuples of the passes entered so far, in order of entry
PassTuples ==
    [i \in 1..(Len(passes) + (IF Computing THEN 1 ELSE 0)) |->
        IF i <= Len(passes)
        THEN <<passes[i].obj.key, passes[i].gripper.name, passes[i].args.metric_name>>
        ELSE <<obj.key, gripper.name, args.metric_name>>]

SelectedObjects ==
    IF request.object_name # None THEN {request.object_name} ELSE DOMAIN dataset_objects

SelectedGrippers ==
    IF request.gripper_name # None THEN {request.gripper_name} ELSE list_grippers

SelectedMetricNames ==
    IF request.metric_name # None THEN {request.metric_name} ELSE DOMAIN config.metrics

\* tuple s comes before tuple t in the nest objects, grippers, metrics
NestedBefore(s, t) ==
    \/ Index(ObjectKeys, s[1]) < Index(ObjectKeys, t[1])
    \/ /\ s[1] = t[1]
       /\ Index(GripperNames, s[2]) < Index(GripperNames, t[2])
    \/ /\ s[1] = t[1]
       /\ s[2] = t[2]
       /\ s[3] # t[3]

\* the names under which the pass for metric_name may record values
OwnVariantNames(metric_name) ==
    {metric_name} \cup {VariantName(metric_name, p) : p \in Range(dataset_stable_poses)}

\* the passes entered so far are for selected tuples, no tuple twice, in nested order,
\* each entered after the one before has stored its record
PassesInNestedOrder ==
    /\ \A i \in DOMAIN PassTuples :
          /\ PassTuples[i][1] \in SelectedObjects
          /\ PassTuples[i][2] \in SelectedGrippers
          /\ PassTuples[i][3] \in SelectedMetricNames
    /\ \A i, j \in DOMAIN PassTuples : i < j => NestedBefore(PassTuples[i], PassTuples[j])
    /\ Cardinality(EventsOf("_compute_metrics")) = Len(PassTuples)
    /\ \A q \in EventsOf("_compute_metrics") :
          CountBefore("store_grasp_metrics", q) = CountBefore("_compute_metrics", q)

\* the pass in progress takes up, computes and records its own metric only
PassOfOwnMetric ==
    Computing \/ pc = "done" =>
        /\ \A m \in metric_dict : m = args.metric_name
        /\ \A i \in DOMAIN variants : variants[i].metric = args.metric_name
        /\ \A g \in DOMAIN grasp_metrics :
              DOMAIN grasp_metrics[g] \subseteq OwnVariantNames(args.metric_name)

\* the pass in progress records nothing under the name of another configured metric
NoOtherMetricName ==
    Computing \/ pc = "done" =>
        \A g \in DOMAIN grasp_metrics :
            DOMAIN grasp_metrics[g] \cap (DOMAIN config.metrics \ {args.metric_name}) = {}

NumberSelected ==
    Cardinality(SelectedObjects) * Cardinality(SelectedGrippers)
        * Cardinality(SelectedMetricNames)

\* C26: the passes of a compute_metrics call are entered one after another, each after
\* the one before has stored its record, for selected (object, gripper, metric) tuples
\* in the nested order objects, grippers, metrics and for no tuple twice; a call that
\* returns has run one pass for every selected tuple, a call halted by RuntimeWarning
\* for fewer; each pass takes up its own metric only and records values only under the
\* names of that metric's variants.
C26_OnePassPerTupleUntilHalt ==
    LoopsEntered =>
        /\ PassesInNestedOrder
        /\ PassOfOwnMetric
        /\ pc = "idle" => Len(PassTuples) = NumberSelected
        /\ pc = "raised" => Len(PassTuples) < NumberSelected

\* the statement without the halt: every call, returned or halted, has run one pass for
\* every selected tuple, and no pass records a value under another configured metric
C26_OnePassPerTuple ==
    LoopsEntered =>
        /\ PassesInNestedOrder
        /\ PassOfOwnMetric
        /\ NoOtherMetricName
        /\ pc \in {"idle", "raised"} => Len(PassTuples) = NumberSelected

\* a call over two grippers and two metrics has returned after four passes
C26_Witness ==
    /\ LoopsEntered
    /\ pc = "idle"
    /\ Len(PassTuples) = 4
    /\ PassTuples[1][2] # PassTuples[3][2]
    /\ PassTuples[1][3] # PassTuples[2][3]

\* a call was halted after one pass, with selected tuples left without a pass
C26_WitnessHalted ==
    /\ LoopsEntered
    /\ pc = "raised"
    /\ Len(PassTuples) = 1
    /\ NumberSelected > 1

(***************************************************************************)
(* self.progress over a session: the operations of an instance with an      *)
(* open dataset, two calls in a row, with metric_display_rate 1 and 2.      *)
(* What the store returns for a pair after sample_grasps has handed it the   *)
(* tuple of _single_obj_grasps is the store's affair: no pass is run on it. *)
(***************************************************************************)
\* one call of every public operation
ProgressCalls ==
    {SessionCall("add_object", "o2", None, FALSE, "cache"),
     Call("sample_grasps", None, "o1", "cup", TRUE),
     Call("compute_metrics", "m", "o1", "cup", TRUE),
     SessionCall("compute_simulation_data", "o1", None, FALSE, "cache"),
     SessionCall("compute_metadata", "o1", None, TRUE, None),
     SessionCall("get_metadata", "o1", None, FALSE, None),
     SessionCall("export_objects", None, "out", FALSE, None),
     SessionCall("display_object", "o1", None, FALSE, None),
     SessionCall("display_stable_poses", "ghost", None, FALSE, None),
     SessionCall("delete_object", "o1", None, FALSE, None),
     SessionCall("open_database", None, DatabaseFile, FALSE, "cache"),
     SessionCall("open_dataset", None, DatasetName, FALSE, None),
     SessionCall("close_database", None, None, FALSE, None)}

ProgressInputs ==
    [databases |-> {"open"},
     datasets |-> {"open"},
     objects |-> {("o1" :> Graspable(1, <<PoseA>>))},
     maxgrasps |-> MaxProgressGrasps,
     xs |-> {<<0, 0, -1>>},
     stored |-> {<<>>},
     registered |-> {{}},
     maxposes |-> {MaxCfgStablePoses},
     metricdicts |-> {("m" :> Metric("force_closure", 30)),
                      ("m" :> Metric("wrench_resistance", 90))},
     deletes |-> {FALSE},
     rates |-> {1, 2},
     scripts |-> {s \in {<<c, d>> : c \in ProgressCalls, d \in ProgressCalls} :
                     s[1].op = "sample_grasps" => s[2].op # "compute_metrics"},
     memo |-> NoMemo]

InitProgress == InitApi(ProgressInputs)

SpecProgress == InitProgress /\ [][NextSession]_vars

(***************************************************************************)
(* Progress reporting.                                                      *)
(***************************************************************************)
\* this step is an iteration of the grasp loop
GraspIteration ==
    /\ Len(events') = Len(events) + 1
    /\ events'[Len(events')].e = "grasp"

\* the iteration is for a grasp whose index, counted from 0, is a multiple of
\* metric_display_rate
Displayed == (k - 1) % config.metric_display_rate = 0

\* self.progress is a fraction between 0 and 1
ProgressInRange ==
    /\ progress[2] > 0
    /\ 0 <= progress[1]
    /\ progress[1] <= progress[2]

\* C27: self.progress is written by the iterations of the grasp loop whose index k
\* (from 0) is a multiple of metric_display_rate, which set it to (k+1)/len(grasps);
\* no other iteration and no other step of any operation changes it, and it is
\* always between 0 and 1.
C27_Progress ==
    /\ []ProgressInRange
    /\ [][IF GraspIteration /\ Displayed
          THEN progress' = <<k, Len(grasps)>>
          ELSE progress' = progress]_vars

\* with metric_display_rate 2 the iteration for the second grasp of three has left
\* the 1/3 written by the first
C27_Witness ==
    /\ config.metric_display_rate = 2
    /\ pc = "grasp"
    /\ k = 3
    /\ Len(grasps) = 3
    /\ progress = <<1, 3>>

\* the 3/3 of a finished pass is still there after a later operation
C27_WitnessKept ==
    /\ config.metric_display_rate = 2
    /\ pc = "idle"
    /\ request.op \notin {"compute_metrics", "None"}
    /\ progress = <<3, 3>>

(***************************************************************************)
(* The record handed to store_grasp_metrics.                                *)
(***************************************************************************)
\* the pass has made its store_grasp_metrics call; grasp_metrics is the record handed
Stored == pc = "done" /\ events[Len(events)].e = "store_grasp_metrics"

\* the iteration of variant v for grasp g has taken the skip of line 603: the metric is
\* a regular one, overwrite is False and a value was stored when the iteration ran
WasSkipped(g, v) ==
    /\ variants[v].config.quality_method \notin GravityMethods
    /\ ~args.overwrite
    /\ ~config.delete_previous_metrics
    /\ variants[v].name \in DOMAIN before.grasp_metrics[g.id]

AtGravityGrasp ==
    /\ pc = "grasp"
    /\ k <= Len(grasps)
    /\ IsGravityMethod(metric_configs[zi].quality_method)

\* C29: in a grasp iteration of a gravity variant the stable pose used (handed to the
\* re-alignment and to the angle computation, and whose z axis enters the feasibility
\* check) is the pose the variant was expanded for: the variant's name ends in that
\* pose's id and its target wrench is that pose's gravity wrench, also in a pass over
\* several metrics; and whenever the index is read it is within the retained poses.
C29_VariantPosePairing ==
    /\ last.kind = "gravity" =>
          LET p == PoseOfVariant(last.nvariant)
              w == last.config.target_wrench
          IN /\ last.pose = p
             /\ last.name = VariantName(variants[last.nvariant].metric, p)
             /\ \A c \in 1..3 : /\ w[c] = obj.mass * GRAVITY_ACCEL * p.r[3][c]
                                /\ w[c + 3] = 0
             /\ last.perpendicular_table =
                   PerpendicularTable(last.angle, last.config, p.r[3],
                                      last.aligned_grasp.x_axis)
    /\ AtGravityGrasp =>
          /\ ind >= 0
          /\ ind < Len(stable_poses)
          /\ stable_poses[ind + 1] = PoseOfVariant(nvariant)

\* a pass over two metrics: the regular one came first, and the second variant of the
\* gravity-dependent one was then checked against the second of two poses
C29_Witness ==
    /\ last.kind = "gravity"
    /\ Len(variants) = 3
    /\ ~IsGravityVariant(1)
    /\ last.nvariant = 3
    /\ Len(stable_poses) = 2
    /\ stable_poses[1] # stable_poses[2]
    /\ last.pose = stable_poses[2]
    /\ last.name = VariantName(variants[3].metric, stable_poses[2])

(***************************************************************************)
(* Values of pose variants stored by an earlier run.                        *)
(***************************************************************************)
\* the names a pose variant of the metric can have
PoseVariantNames(metric_name) == {VariantName(metric_name, p) : p \in {PoseA, PoseB}}

\* the pass of a gravity-dependent metric, run with delete_previous_metrics, has stored
DeletingPassStored ==
    /\ Stored
    /\ config.delete_previous_metrics
    /\ args.metric_name # None
    /\ config.metrics[args.metric_name].quality_method \in GravityMethods

\* what the pass does to the stored values of grasp id g: the value under the metric's
\* own name is gone, the variants of the retained poses hold what the pass recorded,
\* and every other name holds what it held before
DeletesOwnNameOnly(g) ==
    LET now == dataset_grasp_metrics[g]
        was == before.grasp_metrics[g]
    IN /\ args.metric_name \notin DOMAIN now
       /\ \A n \in DOMAIN grasp_metrics[g] : n \in DOMAIN now /\ now[n] = grasp_metrics[g][n]
       /\ \A n \in DOMAIN was \ (DOMAIN grasp_metrics[g] \cup {args.metric_name}) :
             n \in DOMAIN now /\ now[n] = was[n]

\* with delete_previous_metrics the pass deletes the values stored under the name of
\* the metric itself and nothing else
OwnNameDeleted ==
    DeletingPassStored => \A i \in DOMAIN grasps : DeletesOwnNameOnly(grasps[i].id)

\* C30: with delete_previous_metrics, once the pass of a gravity-dependent metric has
\* stored, every value the store holds under a pose-variant name of the metric, for a
\* grasp of the pair, was recorded in this pass.
C30_StaleVariantsDeleted ==
    DeletingPassStored =>
        \A i \in DOMAIN grasps :
            \A n \in DOMAIN dataset_grasp_metrics[grasps[i].id] \cap
                        PoseVariantNames(args.metric_name) :
                n \in DOMAIN grasp_metrics[grasps[i].id]

\* the value stored for pose b by an earlier run is still there after a pass that
\* retained pose a only
C30_StaleKept ==
    /\ DeletingPassStored
    /\ Len(grasps) >= 1
    /\ Len(stable_poses) = 1
    /\ stable_poses[1] = PoseA
    /\ VariantName(args.metric_name, PoseB) \in DOMAIN dataset_grasp_metrics[grasps[1].id]
    /\ VariantName(args.metric_name, PoseB) \notin DOMAIN grasp_metrics[grasps[1].id]
    /\ VariantName(args.metric_name, PoseA) \in DOMAIN grasp_metrics[grasps[1].id]

(***************************************************************************)
(* The store after a pass that was left by an exception.                    *)
(***************************************************************************)
\* the pass was left by an exception before its store_grasp_metrics call
PassAborted == pc = "raised" /\ EventsOf("store_grasp_metrics") = {}

\* what holds of the store after such a pass: no value was added or changed, every
\* value that is gone is one deleted by delete_previous_metrics, and every metric that
\* was registered still is
AbortLosesDeletedOnly ==
    PassAborted =>
        /\ KeptIn(dataset_grasp_metrics, before.grasp_metrics)
        /\ before.metrics \subseteq dataset_metrics
        /\ \A g \in DOMAIN before.grasp_metrics :
              \A n \in DOMAIN before.grasp_metrics[g] \ DOMAIN dataset_grasp_metrics[g] :
                 /\ config.delete_previous_metrics
                 /\ n \in DOMAIN config.metrics
        /\ ~config.delete_previous_metrics => dataset_grasp_metrics = before.grasp_metrics

\* C31: when a pass is left by an exception before its store_grasp_metrics call, the
\* values and the registered metrics of the store are those of before the pass, with
\* delete_previous_metrics as without.
C31_StoreUnchangedOnAbort ==
    PassAborted =>
        /\ dataset_grasp_metrics = before.grasp_metrics
        /\ dataset_metrics = before.metrics

\* quality_fn raised after delete_previous_metrics had deleted a stored value
C31_ValueLost ==
    /\ PassAborted
    /\ exc = "Exception"
    /\ config.delete_previous_metrics
    /\ \E g \in DOMAIN before.grasp_metrics :
          /\ args.metric_name \in DOMAIN before.grasp_metrics[g]
          /\ args.metric_name \notin DOMAIN dataset_grasp_metrics[g]

\* quality_fn raised after a variant had been registered as a metric
C31_MetricLeft ==
    /\ PassAborted
    /\ exc = "Exception"
    /\ dataset_metrics # before.metrics

(***************************************************************************)
(* The session after close_database.                                        *)
(***************************************************************************)
\* the positions in the log of the calls of public operations
CallsMade ==
    {i \in DOMAIN events :
        events[i].e \in CheckedOperations \cup {"open_database", "open_dataset",
                                                "close_database"}}

\* the call made last is the one after a close_database that returned
AfterClose ==
    \E i, j \in CallsMade :
        /\ i < j
        /\ \A c \in CallsMade : c <= j /\ (c <= i \/ c = j)
        /\ events[i].e = "close_database"
        /\ events[j].e = request.op
        /\ before.database = "closed"

\* the call is an open_database of an existing database file
GoodOpenDatabase ==
    /\ request.op = "open_database"
    /\ HasHdf5Ext(request.path)
    /\ request.path = DatabaseFile \/ request.overwrite

\* what holds after close_database when the cache directory was the caller's: a second
\* close_database changes nothing and open_database opens the database
AfterCloseWithOwnCache ==
    (AfterClose /\ before._database_temp_cache_dir = NoDir) =>
        /\ request.op = "close_database" => exc = "None" /\ State = before
        /\ GoodOpenDatabase => exc = "None" /\ database = "open"

\* C32: after close_database no database is open: every operation on the dataset, and
\* open_dataset, raises RuntimeError and changes nothing; a second close_database
\* returns and changes nothing; an open_database of a database file returns with the
\* database open.
C32_ClosedIsNotOpen ==
    AfterClose =>
        /\ request.op \in CheckedOperations \cup {"open_dataset"} => RaisedFirst
        /\ request.op = "close_database" => exc = "None" /\ State = before
        /\ GoodOpenDatabase => exc = "None" /\ database = "open"

\* the second close_database raised OSError: the temporary directory was gone
C32_SecondCloseRaises ==
    /\ AfterClose
    /\ request.op = "close_database"
    /\ exc = "OSError"

\* the open_database after close_database raised OSError and no database is open
C32_OpenAfterCloseRaises ==
    /\ AfterClose
    /\ GoodOpenDatabase
    /\ exc = "OSError"
    /\ database = "closed"

\* an operation on the dataset went past _check_opens after close_database
C32_CheckPassed ==
    /\ AfterClose
    /\ request.op \in CheckedOperations
    /\ pc \in {"idle", "raised"}
    /\ exc # "RuntimeError"

(***************************************************************************)
(* open_database while a database is open.                                  *)
(***************************************************************************)
\* open_database, called while a database was open, raised ValueError
OpenRefusedWhileOpen ==
    /\ request.op = "open_database"
    /\ exc = "ValueError"
    /\ before.database = "open"

\* the call is made with the database replaced by open_database and the dataset of the
\* replaced database still the current one
AfterReplace == before.database = "open" /\ before.dataset = "closed"

\* what the refused open_database has done: the database that was open is closed, its
\* temporary cache directory is removed and forgotten, the dataset is the closed one
RefusedOpenClosesOld ==
    OpenRefusedWhileOpen =>
        /\ database = "closed"
        /\ before.dataset = "open" => dataset = "closed"
        /\ _database_temp_cache_dir = NoDir
        /\ before._database_temp_cache_dir \notin temp_dirs.present

\* C33: an open_database that raises ValueError while a database is open leaves that
\* database open, with its dataset and its cache directory as they were; and after an
\* open_database that replaced the database, the operations on the dataset raise
\* RuntimeError and change nothing as long as open_dataset has not been called.
C33_OpenDatabaseAtomic ==
    /\ OpenRefusedWhileOpen => State = before
    /\ (AfterReplace /\ request.op \in CheckedOperations) => RaisedFirst

\* the open database was closed and its temporary directory removed by an
\* open_database that raised ValueError
C33_OldClosed ==
    /\ OpenRefusedWhileOpen
    /\ database = "closed"
    /\ before._database_temp_cache_dir # NoDir
    /\ before._database_temp_cache_dir \in before.temp_dirs
    /\ before._database_temp_cache_dir \notin temp_dirs.present

\* an operation on the dataset went past _check_opens with the dataset of the replaced
\* database
C33_StaleDatasetUsed ==
    /\ AfterReplace
    /\ request.op \in CheckedOperations
    /\ pc \in {"idle", "raised"}
    /\ exc # "RuntimeError"

====
